---- MODULE Spec2Model ----
(***************************************************************************)
(* Model of the coderoom index store (src/src/db.rs): the SQLite tables    *)
(* repos, tags, repo_tags, commit_branches and commits, the operations of  *)
(* Db on them, the paged reads and the transactional replacement of a      *)
(* repository's commit index.                                              *)
(*                                                                         *)
(* Text values are sequences of one-character strings so that LIKE can be  *)
(* computed as SQLite computes it.  A nullable column holds <<>> for NULL  *)
(* and <<v>> for the value v.                                              *)
(***************************************************************************)
EXTENDS Integers, Sequences, FiniteSets, TLC

VARIABLES
    repos,            \* table repos: set of RepoRow
    repos_seq,        \* AUTOINCREMENT high-water mark of repos.id
    tags,             \* table tags: set of [id, name]
    tags_seq,         \* AUTOINCREMENT high-water mark of tags.id
    repo_tags,        \* table repo_tags: set of [repo_id, tag_id]
    commit_branches,  \* table commit_branches
    commits,          \* table commits
    ret,              \* what the last completed Db call returned
    call,             \* the last completed Db call (history)
    pg,               \* a client paging through one paged read
    tx,               \* connection W inside replace_commit_index_for_repo
    rd,               \* what a reader on another connection last observed
    fs,               \* the directory tree a scan walks
    walk,             \* discover_git_repos: its arguments, its walker, its result
    git,              \* the repository build_commit_index_for_repo opens
    built,            \* build_commit_index_for_repo: its position and its result
    job,              \* the commit-index rebuild loop over its targets
    peer              \* connection P: a second connection inside a write operation

storeVars == <<repos, repos_seq, tags, tags_seq, repo_tags, commit_branches, commits>>
hostVars == <<fs, walk, git, built, job, peer>>
vars == <<repos, repos_seq, tags, tags_seq, repo_tags, commit_branches, commits,
          ret, call, pg, tx, rd, fs, walk, git, built, job, peer>>

(***************************************************************************)
(* Bounds of the model.                                                    *)
(***************************************************************************)
MaxRepoId == 3     \* repos.id values handed out in one behaviour
MaxTagId  == 2     \* tags.id values handed out in one behaviour
MaxPerPage == 2    \* largest page size a paging client asks for
UsizeBits == 16    \* bits of usize kept by the model (64 in the program)

(***************************************************************************)
(* Option values                                                           *)
(***************************************************************************)
None == <<>>
Some(x) == <<x>>
IsSome(o) == o # <<>>
Coalesce(o, d) == IF o = <<>> THEN d ELSE o[1]

(***************************************************************************)
(* SQLite LIKE without ESCAPE: '%' matches any run of characters, '_' any  *)
(* one character, every other character matches itself with ASCII case    *)
(* folded.                                                                 *)
(***************************************************************************)
Fold(c) ==
    CASE c = "A" -> "a"
      [] c = "B" -> "b"
      [] c = "F" -> "f"
      [] c = "X" -> "x"
      [] OTHER   -> c

RECURSIVE Like(_, _)
Like(pat, s) ==
    IF pat = <<>> THEN s = <<>>
    ELSE IF Head(pat) = "%"
         THEN Like(Tail(pat), s) \/ (s # <<>> /\ Like(pat, Tail(s)))
         ELSE /\ s # <<>>
              /\ (Head(pat) = "_" \/ Fold(Head(pat)) = Fold(Head(s)))
              /\ Like(Tail(pat), Tail(s))

\* format!("%{}%", query)
Wrap(q) == <<"%">> \o q \o <<"%">>

\* str::starts_with / ends_with on character sequences
StartsWith(s, p) == Len(s) >= Len(p) /\ SubSeq(s, 1, Len(p)) = p
EndsWith(s, p) == Len(s) >= Len(p) /\ SubSeq(s, Len(s) - Len(p) + 1, Len(s)) = p

MAIN_SEPARATOR == <<"/">>

(***************************************************************************)
(* Values the operations are called with.                                  *)
(***************************************************************************)
P_a   == <<"/", "a">>
P_ax  == <<"/", "a", "/", "x">>
P_ay  == <<"/", "a", "/", "y">>
P_bz  == <<"/", "b", "/", "z">>
P_abx == <<"/", "a", "b", "/", "x">>
P_Ax  == <<"/", "A", "/", "x">>

R_a       == <<"/", "a">>
R_aSlash  == <<"/", "a", "/">>
R_aUnder  == <<"/", "a", "_">>
R_pct     == <<"/", "%">>

T_be == <<"b", "e">>
T_re == <<"r", "e">>

\* RepoMeta without its path: two scans of one repository that differ in
\* every column upsert_repo writes.
Meta1 == [name |-> <<"x">>, default_branch |-> None, last_commit_ts |-> None,
          last_scan_ts |-> 1, readme_excerpt |-> None, origin_url |-> None]
Meta2 == [name |-> <<"f", "o">>, default_branch |-> Some(<<"m">>),
          last_commit_ts |-> Some(2), last_scan_ts |-> 2,
          readme_excerpt |-> Some(<<"f", "o", "o">>), origin_url |-> Some(<<"u">>)]

\* a repository that has the letter f in its name alone, and one that has it
\* in its README excerpt alone
Meta3 == [name |-> <<"f">>, default_branch |-> None, last_commit_ts |-> None,
          last_scan_ts |-> 1, readme_excerpt |-> None, origin_url |-> None]
Meta4 == [name |-> <<"x">>, default_branch |-> None, last_commit_ts |-> None,
          last_scan_ts |-> 1, readme_excerpt |-> Some(<<"f", "o">>), origin_url |-> None]

MetaFields == {"name", "default_branch", "last_commit_ts", "last_scan_ts",
               "readme_excerpt", "origin_url"}

RepoMeta(path, m) == [path |-> path] @@ m

\* CommitBranch and CommitIndexRow values as build_commit_index_for_repo
\* hands them over.
Ref_m == <<"h", "/", "m">>
Ref_d == <<"h", "/", "d">>

CommitBranch(kind, name, refname, tip_time) ==
    [kind |-> kind, name |-> name, refname |-> refname, tip_time |-> tip_time]

CommitIndexRow(refname, name, oid, time, summary, message) ==
    [refname |-> refname, branch_kind |-> "local", branch_name |-> name,
     oid |-> oid, time |-> time, author |-> None, email |-> None,
     summary |-> summary, message |-> message]

Tip_m == CommitBranch("local", <<"m">>, Ref_m, Some(2))
Tip_d == CommitBranch("local", <<"d">>, Ref_d, Some(2))

\* one commit on main
IndexOld == [branches |-> <<CommitBranch("local", <<"m">>, Ref_m, Some(1))>>,
             commits  |-> <<CommitIndexRow(Ref_m, <<"m">>, "c1", Some(1), Some(<<"f">>), None)>>]
\* a later commit, reachable from main and from dev
IndexNew == [branches |-> <<Tip_m, Tip_d>>,
             commits  |-> <<CommitIndexRow(Ref_m, <<"m">>, "c2", Some(2), Some(<<"f", "o">>), Some(<<"f", "o">>)),
                            CommitIndexRow(Ref_d, <<"d">>, "c2", Some(2), Some(<<"f", "o">>), Some(<<"f", "o">>))>>]
\* a repository without branches
IndexEmpty == [branches |-> <<>>, commits |-> <<>>]
\* an input that repeats a ref name among the tips
IndexDupTip == [branches |-> <<Tip_m, Tip_m>>,
                commits  |-> <<CommitIndexRow(Ref_m, <<"m">>, "c2", Some(2), Some(<<"f">>), None)>>]

\* commits without a time, of the epoch and of a later date
IndexTimes == [branches |-> <<Tip_m, Tip_d>>,
               commits  |-> <<CommitIndexRow(Ref_m, <<"m">>, "c1", None, Some(<<"f">>), None),
                              CommitIndexRow(Ref_m, <<"m">>, "c2", Some(0), Some(<<"f", "o">>), None),
                              CommitIndexRow(Ref_d, <<"d">>, "c3", Some(2), None, Some(<<"f">>))>>]

(***************************************************************************)
(* Helpers over the tables                                                 *)
(***************************************************************************)
Range(s) == {s[i] : i \in 1..Len(s)}

\* repo_id_by_path: SELECT id FROM repos WHERE path = ?1
repo_id_by_path(rs, repo_path) ==
    LET hit == {r \in rs : r.path = repo_path}
    IN  IF hit = {} THEN None ELSE Some((CHOOSE r \in hit : TRUE).id)

\* SELECT id FROM tags WHERE name = ?1
tag_id_by_name(ts, tag) ==
    LET hit == {t \in ts : t.name = tag}
    IN  IF hit = {} THEN None ELSE Some((CHOOSE t \in hit : TRUE).id)

\* DELETE FROM tags WHERE NOT EXISTS (SELECT 1 FROM repo_tags WHERE tag_id = tags.id)
prune_orphan_tags_skipped(ts, rts) == ts
prune_orphan_tags(ts, rts) ==
    {t \in ts : \E rt \in rts : rt.tag_id = t.id}

(***************************************************************************)
(* Rows                                                                    *)
(***************************************************************************)
\* the row INSERT INTO repos (...) creates: last_access_ts is not in the
\* column list and starts NULL
NewRepoRow(id, meta) ==
    [id |-> id, path |-> meta.path, name |-> meta.name,
     default_branch |-> meta.default_branch, last_commit_ts |-> meta.last_commit_ts,
     last_scan_ts |-> meta.last_scan_ts, readme_excerpt |-> meta.readme_excerpt,
     origin_url |-> meta.origin_url, last_access_ts |-> None]

\* ON CONFLICT(path) DO UPDATE SET ... = excluded. ...
UpdatedRepoRowNoOrigin(r, meta) ==
    [r EXCEPT !.name = meta.name, !.default_branch = meta.default_branch,
              !.last_commit_ts = meta.last_commit_ts, !.last_scan_ts = meta.last_scan_ts,
              !.readme_excerpt = meta.readme_excerpt]
UpdatedRepoRow(r, meta) ==
    [r EXCEPT !.name = meta.name, !.default_branch = meta.default_branch,
              !.last_commit_ts = meta.last_commit_ts, !.last_scan_ts = meta.last_scan_ts,
              !.readme_excerpt = meta.readme_excerpt, !.origin_url = meta.origin_url]

\* FOREIGN KEY (repo_id) REFERENCES repos(id) ON DELETE CASCADE, in force
\* because Db::open sets PRAGMA foreign_keys = ON: the rows of a child table
\* that are left when the repos rows with ids `gone` are deleted
CascadeNone(tbl, gone) == tbl
Cascade(tbl, gone) == {x \in tbl : x.repo_id \notin gone}

\* the rows of a table after DELETE FROM repos WHERE path = p for p in paths
ReposWithoutNothing(paths) == repos
ReposWithout(paths) == {r \in repos : r.path \notin paths}
GoneIds(paths) == {r.id : r \in {x \in repos : x.path \in paths}}

\* INSERT INTO commit_branches ..., one row: UNIQUE(repo_id, refname) and
\* the foreign key on repo_id are checked when the statement runs
InsertBranch(tbl, rs, id, b) ==
    IF \/ \E x \in tbl : x.repo_id = id /\ x.refname = b.refname
       \/ ~ \E r \in rs : r.id = id
    THEN [ok |-> FALSE, rows |-> tbl]
    ELSE [ok |-> TRUE, rows |-> tbl \cup {[repo_id |-> id] @@ b}]

\* INSERT INTO commits ..., one row: UNIQUE(repo_id, refname, oid) and the
\* foreign key on repo_id
InsertCommit(tbl, rs, id, c) ==
    IF \/ \E x \in tbl : x.repo_id = id /\ x.refname = c.refname /\ x.oid = c.oid
       \/ ~ \E r \in rs : r.id = id
    THEN [ok |-> FALSE, rows |-> tbl]
    ELSE [ok |-> TRUE, rows |-> tbl \cup {[repo_id |-> id] @@ c}]

RECURSIVE InsertBranches(_, _, _, _)
InsertBranches(tbl, rs, id, bs) ==
    IF bs = <<>> THEN [ok |-> TRUE, rows |-> tbl]
    ELSE LET one == InsertBranch(tbl, rs, id, Head(bs))
         IN  IF one.ok THEN InsertBranches(one.rows, rs, id, Tail(bs)) ELSE one

RECURSIVE InsertCommits(_, _, _, _)
InsertCommits(tbl, rs, id, cs) ==
    IF cs = <<>> THEN [ok |-> TRUE, rows |-> tbl]
    ELSE LET one == InsertCommit(tbl, rs, id, Head(cs))
         IN  IF one.ok THEN InsertCommits(one.rows, rs, id, Tail(cs)) ELSE one

(***************************************************************************)
(* The Db operations, each one call on one connection with no other        *)
(* connection active.                                                      *)
(***************************************************************************)
Ok(n) == [ok |-> TRUE, n |-> n]
Err == [ok |-> FALSE, n |-> 0]
NoCall == [op |-> "none", branch |-> "none"]

\* records the call that just completed, the branch of its code it took
\* and what it returned
Returns(op, branch, r) ==
    /\ ret' = r
    /\ call' = [op |-> op, branch |-> branch]

nonStoreVars == <<pg, tx, rd, hostVars>>

\* INSERT INTO repos (...) VALUES (...) ON CONFLICT(path) DO UPDATE SET ...
upsert_repo_fresh_row(meta) ==
    /\ IF \E r \in repos : r.path = meta.path
       THEN /\ repos' = {IF r.path = meta.path THEN NewRepoRow(r.id, meta) ELSE r : r \in repos}
            /\ repos_seq' = repos_seq
            /\ Returns("upsert_repo", IF repos' = repos THEN "same" ELSE "update", Ok(0))
       ELSE /\ repos_seq < MaxRepoId
            /\ repos' = repos \cup {NewRepoRow(repos_seq + 1, meta)}
            /\ repos_seq' = repos_seq + 1
            /\ Returns("upsert_repo", "insert", Ok(0))
    /\ UNCHANGED <<tags, tags_seq, repo_tags, commit_branches, commits>>
    /\ UNCHANGED nonStoreVars

upsert_repo(meta) ==
    /\ IF \E r \in repos : r.path = meta.path
       THEN /\ repos' = {IF r.path = meta.path THEN UpdatedRepoRow(r, meta) ELSE r : r \in repos}
            /\ repos_seq' = repos_seq
            /\ Returns("upsert_repo", IF repos' = repos THEN "same" ELSE "update", Ok(0))
       ELSE /\ repos_seq < MaxRepoId
            /\ repos' = repos \cup {NewRepoRow(repos_seq + 1, meta)}
            /\ repos_seq' = repos_seq + 1
            /\ Returns("upsert_repo", "insert", Ok(0))
    /\ UNCHANGED <<tags, tags_seq, repo_tags, commit_branches, commits>>
    /\ UNCHANGED nonStoreVars

\* ensure_tag: INSERT OR IGNORE INTO tags (name), then SELECT id
ensure_tag_no_ignore(ts, seq, tag) ==
    [tags |-> ts \cup {[id |-> seq + 1, name |-> tag]}, seq |-> seq + 1, id |-> seq + 1]
ensure_tag(ts, seq, tag) ==
    IF \E t \in ts : t.name = tag
    THEN [tags |-> ts, seq |-> seq, id |-> tag_id_by_name(ts, tag)[1]]
    ELSE [tags |-> ts \cup {[id |-> seq + 1, name |-> tag]}, seq |-> seq + 1, id |-> seq + 1]

\* ensure_tag run ahead of the lookup of the repository
add_tag_to_repo_tag_first(repo_path, tag) ==
    LET repo_id == repo_id_by_path(repos, repo_path)
        e       == ensure_tag(tags, tags_seq, tag)
    IN  /\ e.seq <= MaxTagId
        /\ tags' = e.tags
        /\ tags_seq' = e.seq
        /\ IF repo_id = None
           THEN /\ UNCHANGED repo_tags
                /\ Returns("add_tag_to_repo", "not_indexed", Err)
           ELSE /\ repo_tags' = repo_tags \cup {[repo_id |-> repo_id[1], tag_id |-> e.id]}
                /\ Returns("add_tag_to_repo",
                           IF repo_tags' = repo_tags THEN "again" ELSE "added", Ok(0))
        /\ UNCHANGED <<repos, repos_seq, commit_branches, commits>>
        /\ UNCHANGED nonStoreVars
add_tag_to_repo(repo_path, tag) ==
    LET repo_id == repo_id_by_path(repos, repo_path)
    IN  /\ IF repo_id = None
           THEN /\ UNCHANGED storeVars
                /\ Returns("add_tag_to_repo", "not_indexed", Err)
           ELSE LET e == ensure_tag(tags, tags_seq, tag)
                IN  /\ e.seq <= MaxTagId
                    /\ tags' = e.tags
                    /\ tags_seq' = e.seq
                    \* INSERT OR IGNORE INTO repo_tags
                    /\ repo_tags' = repo_tags \cup {[repo_id |-> repo_id[1], tag_id |-> e.id]}
                    /\ UNCHANGED <<repos, repos_seq, commit_branches, commits>>
                    /\ Returns("add_tag_to_repo",
                               IF repo_tags' = repo_tags THEN "again" ELSE "added", Ok(0))
        /\ UNCHANGED nonStoreVars

\* the rows of list_tags_with_count before ORDER BY:
\* SELECT t.name, COUNT(rt.repo_id) AS c ... GROUP BY t.id HAVING c > 0
TagCountRowsAnyTag(ts, rts) ==
    {row \in {[name |-> t.name, c |-> Cardinality(rts)] : t \in ts} : row.c > 0}
TagCountRows(ts, rts) ==
    {row \in {[name |-> t.name, c |-> Cardinality({rt \in rts : rt.tag_id = t.id})] : t \in ts} :
        row.c > 0}

\* DELETE FROM tags WHERE id = ?1 AND NOT EXISTS (SELECT 1 FROM repo_tags WHERE tag_id = ?1)
DropTagKeep(ts, rts, tag_id) == ts
DropTagIfOrphan(ts, rts, tag_id) ==
    {t \in ts : ~ (t.id = tag_id /\ ~ \E rt \in rts : rt.tag_id = tag_id)}

remove_tag_from_repo(repo_path, tag) ==
    LET repo_id == repo_id_by_path(repos, repo_path)
        tag_id  == tag_id_by_name(tags, tag)
    IN  /\ IF repo_id = None
           THEN /\ UNCHANGED storeVars
                /\ Returns("remove_tag_from_repo", "not_indexed", Err)
           ELSE IF tag_id = None
           THEN /\ UNCHANGED storeVars
                /\ Returns("remove_tag_from_repo", "no_tag", Ok(0))
           ELSE /\ repo_tags' = repo_tags \ {[repo_id |-> repo_id[1], tag_id |-> tag_id[1]]}
                /\ tags' = DropTagIfOrphan(tags, repo_tags', tag_id[1])
                /\ UNCHANGED <<repos, repos_seq, tags_seq, commit_branches, commits>>
                /\ Returns("remove_tag_from_repo", "removed", Ok(0))
        /\ UNCHANGED nonStoreVars

\* now is chrono::Utc::now().timestamp()
\* the UPDATE without its WHERE clause
record_access_every_row(repo_path, now) ==
    /\ repos' = {[r EXCEPT !.last_access_ts = Some(now)] : r \in repos}
    /\ UNCHANGED <<repos_seq, tags, tags_seq, repo_tags, commit_branches, commits>>
    /\ Returns("record_access", "updated", Ok(0))
    /\ UNCHANGED nonStoreVars
record_access(repo_path, now) ==
    /\ repos' = {IF r.path = repo_path THEN [r EXCEPT !.last_access_ts = Some(now)] ELSE r : r \in repos}
    /\ UNCHANGED <<repos_seq, tags, tags_seq, repo_tags, commit_branches, commits>>
    /\ Returns("record_access", "updated", Ok(0))
    /\ UNCHANGED nonStoreVars

\* which of its effects a prune had
PruneBranch(paths) ==
    IF paths = {} THEN "none"
    ELSE IF \E x \in repo_tags \cup commit_branches \cup commits : x.repo_id \in GoneIds(paths)
         THEN "cascade" ELSE "plain"

\* DELETE FROM repos WHERE path = p for every p of `paths`, the cascades,
\* then prune_orphan_tags
DeleteReposAndPrune(paths) ==
    /\ repos' = ReposWithout(paths)
    /\ repo_tags' = Cascade(repo_tags, GoneIds(paths))
    /\ commit_branches' = Cascade(commit_branches, GoneIds(paths))
    /\ commits' = Cascade(commits, GoneIds(paths))
    /\ tags' = prune_orphan_tags(tags, repo_tags')
    /\ UNCHANGED <<repos_seq, tags_seq>>

\* exists is the set of paths for which Path::new(p).exists() holds
prune_missing_paths(exists) ==
    LET missing == {r.path : r \in repos} \ exists
    IN  /\ DeleteReposAndPrune(missing)
        /\ Returns("prune_missing_paths", PruneBranch(missing), Ok(Cardinality(missing)))
        /\ UNCHANGED nonStoreVars

\* the rows SELECT path FROM repos WHERE path LIKE ?1 returns
\* the LIKE pattern without its trailing '%'
PathsLikeNoWildcard(root) ==
    LET prefix == IF EndsWith(root, MAIN_SEPARATOR) THEN root ELSE root \o MAIN_SEPARATOR
    IN  {r.path : r \in {x \in repos : Like(prefix, x.path)}}
PathsLikePrefix(root) ==
    LET prefix == IF EndsWith(root, MAIN_SEPARATOR) THEN root ELSE root \o MAIN_SEPARATOR
        like   == prefix \o <<"%">>
    IN  {r.path : r \in {x \in repos : Like(like, x.path)}}

prune_under_root(root, keep) ==
    LET doomed == PathsLikePrefix(root) \ keep
    IN  /\ DeleteReposAndPrune(doomed)
        /\ Returns("prune_under_root", PruneBranch(doomed), Ok(Cardinality(doomed)))
        /\ UNCHANGED nonStoreVars

\* the whole transaction of replace_commit_index_for_repo; an error leaves
\* the Transaction to its Drop, which rolls back
replace_commit_index_for_repo(repo_path, branches, cmts) ==
    LET repo_id == repo_id_by_path(repos, repo_path)
    IN  /\ IF repo_id = None
           THEN /\ UNCHANGED <<commit_branches, commits>>
                /\ Returns("replace_commit_index_for_repo", "not_indexed", Err)
           ELSE LET id == repo_id[1]
                    b  == InsertBranches({x \in commit_branches : x.repo_id # id}, repos, id, branches)
                    c  == InsertCommits({x \in commits : x.repo_id # id}, repos, id, cmts)
                IN  IF b.ok /\ c.ok
                    THEN /\ commit_branches' = b.rows
                         /\ commits' = c.rows
                         /\ Returns("replace_commit_index_for_repo", "committed", Ok(0))
                    ELSE /\ UNCHANGED <<commit_branches, commits>>
                         /\ Returns("replace_commit_index_for_repo", "rolled_back", Err)
        /\ UNCHANGED <<repos, repos_seq, tags, tags_seq, repo_tags>>
        /\ UNCHANGED nonStoreVars

(***************************************************************************)
(* Spec: any sequence of store operations from the empty store that        *)
(* init_schema creates.                                                    *)
(***************************************************************************)
Paths   == {P_ax, P_ay}
Metas   == {Meta1, Meta2}
TagNames == {T_be, T_re}
Times   == {1}
Indexes == {IndexNew, IndexEmpty, IndexDupTip}

NoIndex == [branches |-> {}, commits |-> {}]
NoQuery == [kind |-> "none", query |-> <<>>, in_a |-> FALSE, in_b |-> FALSE, in_c |-> FALSE,
            in_d |-> FALSE, tag |-> None, recent |-> FALSE, branch |-> None, per_page |-> 1]
PgIdle == [state |-> "idle", q |-> NoQuery, page |-> 1, acc |-> <<>>, totals |-> <<>>]
TxIdle == [pc |-> "idle", path |-> <<>>, id |-> 0, input |-> IndexEmpty, ib |-> 1, ic |-> 1,
           cb |-> {}, cm |-> {}, old |-> NoIndex]
RdNone == [seen |-> FALSE, during |-> FALSE, id |-> 0, cb |-> {}, cm |-> {},
           old |-> NoIndex, new |-> NoIndex]

\* nothing is scanned, built or rebuilt
NoTree == [dirs |-> {}, others |-> {}]
WalkIdle == [pc |-> "idle"]
GitNone == <<>>
BuiltIdle == [pc |-> "idle"]
JobIdle == [pc |-> "idle"]
PeerIdle == [pc |-> "idle"]
HostIdle ==
    /\ fs = NoTree /\ walk = WalkIdle
    /\ git = GitNone /\ built = BuiltIdle /\ job = JobIdle /\ peer = PeerIdle

EmptyStore ==
    /\ repos = {} /\ repos_seq = 0
    /\ tags = {} /\ tags_seq = 0
    /\ repo_tags = {}
    /\ commit_branches = {} /\ commits = {}

Init ==
    /\ EmptyStore
    /\ ret = Ok(0) /\ call = NoCall
    /\ pg = PgIdle /\ tx = TxIdle /\ rd = RdNone
    /\ HostIdle

Upsert == \E p \in Paths : upsert_repo(RepoMeta(p, Meta1))
AddTag == \E p \in Paths, t \in TagNames : add_tag_to_repo(p, t)
RemoveTag == \E p \in Paths, t \in TagNames : remove_tag_from_repo(p, t)
RecordAccess == \E p \in Paths, now \in Times : record_access(p, now)
PruneMissing == \E exists \in SUBSET Paths : prune_missing_paths(exists)
PruneUnderRoot == \E keep \in SUBSET Paths : prune_under_root(R_a, keep)
ReplaceCommitIndex ==
    \E p \in Paths, ix \in Indexes : replace_commit_index_for_repo(p, ix.branches, ix.commits)

Next ==
    \/ Upsert
    \/ AddTag
    \/ RemoveTag
    \/ RecordAccess
    \/ PruneMissing
    \/ PruneUnderRoot
    \/ ReplaceCommitIndex

Spec == Init /\ [][Next]_vars

(***************************************************************************)
(* SpecUpsert: the same operations with repositories that are rescanned    *)
(* with changed metadata.                                                  *)
(***************************************************************************)
Rescan == \E p \in Paths, m \in Metas : upsert_repo(RepoMeta(p, m))
TagOne == \E p \in Paths : add_tag_to_repo(p, T_be)
UntagOne == \E p \in Paths : remove_tag_from_repo(p, T_be)
Reindex == \E p \in Paths : replace_commit_index_for_repo(p, IndexNew.branches, IndexNew.commits)

NextUpsert ==
    \/ Rescan
    \/ TagOne
    \/ UntagOne
    \/ RecordAccess
    \/ PruneMissing
    \/ PruneUnderRoot
    \/ Reindex

SpecUpsert == Init /\ [][NextUpsert]_vars

(***************************************************************************)
(* SpecPrune: scans of several roots, with paths that differ from a root   *)
(* by letter case, that share a name prefix with it or equal it, and roots *)
(* that contain the LIKE wildcards.                                        *)
(***************************************************************************)
PrunePaths == {P_a, P_ax, P_ay, P_bz, P_abx, P_Ax}
PruneRoots == {R_a, R_aSlash, R_aUnder, R_pct}
PruneKeeps == SUBSET {P_ax, P_Ax}
PruneTagPaths == {P_ax, P_bz}

Discover == \E p \in PrunePaths : upsert_repo(RepoMeta(p, Meta1))
TagDiscovered == \E p \in PruneTagPaths : add_tag_to_repo(p, T_be)
PruneRoot == \E root \in PruneRoots, keep \in PruneKeeps : prune_under_root(root, keep)

NextPrune ==
    \/ Discover
    \/ TagDiscovered
    \/ PruneRoot

SpecPrune == Init /\ [][NextPrune]_vars

(***************************************************************************)
(* SpecConc: replace_commit_index_for_repo statement by statement on       *)
(* connection W while a reader runs its statements on another connection.  *)
(* tx.cb and tx.cm are the two tables as W's open transaction has them;    *)
(* the variables commit_branches and commits are the committed tables.     *)
(***************************************************************************)
ConcPaths   == {P_ax, P_ay}
ConcIndexes == {IndexOld, IndexNew, IndexEmpty, IndexDupTip}

\* the rows of one repository in the two tables
IndexOf(cb, cm, id) ==
    [branches |-> {x \in cb : x.repo_id = id}, commits |-> {x \in cm : x.repo_id = id}]

\* the rows replace_commit_index_for_repo is asked to store for repository id
InputRows(id, input) ==
    [branches |-> {[repo_id |-> id] @@ b : b \in Range(input.branches)},
     commits  |-> {[repo_id |-> id] @@ c : c \in Range(input.commits)}]

\* W holds SQLite's write lock from its first write until COMMIT or ROLLBACK
NeverLocked(c) == FALSE
HoldsWriteLock(c) == c.pc \in {"del_commits", "insert"}
WriteLocked == HoldsWriteLock(tx)
PeerLocked == HoldsWriteLock(peer)

\* a rusqlite Transaction that goes out of scope without commit(): its
\* DropBehavior is Rollback, the committed table stays as it is
DropBehaviorCommit(committed, pending) == pending
DropBehaviorRollback(committed, pending) == committed

\* what a statement on another connection reads of a table that W's open
\* transaction has written to: the committed rows
SeesUncommitted(committed, pending) == pending
OtherConnectionSees(committed, pending) == committed

\* let repo_id = self.repo_id_by_path(repo_path)?.with_context(...)?
ReplaceLookup ==
    \E p \in ConcPaths, ix \in ConcIndexes :
        LET repo_id == repo_id_by_path(repos, p)
        IN  /\ tx.pc = "idle"
            /\ IF repo_id = None
               THEN /\ tx' = tx
                    /\ Returns("replace_commit_index_for_repo", "not_indexed", Err)
               ELSE /\ tx' = [TxIdle EXCEPT !.pc = "begin", !.path = p, !.id = repo_id[1], !.input = ix]
                    /\ UNCHANGED <<ret, call>>
            /\ UNCHANGED <<storeVars, pg, rd, hostVars>>

\* let tx = self.conn.unchecked_transaction()?;
\* tx.execute("DELETE FROM commit_branches WHERE repo_id = ?1", [repo_id])?
ReplaceDeleteBranches ==
    /\ tx.pc = "begin"
    /\ ~ PeerLocked
    /\ tx' = [tx EXCEPT !.pc = "del_commits",
                        !.old = IndexOf(commit_branches, commits, tx.id),
                        !.cb = {x \in commit_branches : x.repo_id # tx.id},
                        !.cm = commits]
    /\ UNCHANGED <<storeVars, ret, call, pg, rd, hostVars>>

\* tx.execute("DELETE FROM commits WHERE repo_id = ?1", [repo_id])?
ReplaceDeleteCommits ==
    /\ tx.pc = "del_commits"
    /\ tx' = [tx EXCEPT !.pc = "insert", !.cm = {x \in tx.cm : x.repo_id # tx.id}]
    /\ UNCHANGED <<storeVars, ret, call, pg, rd, hostVars>>

\* one stmt.execute of the loop over branches; an error returns through `?`
\* and dropping tx rolls the transaction back
ReplaceInsertBranch ==
    /\ tx.pc = "insert"
    /\ tx.ib <= Len(tx.input.branches)
    /\ LET one == InsertBranch(tx.cb, repos, tx.id, tx.input.branches[tx.ib])
       IN  IF one.ok
           THEN /\ tx' = [tx EXCEPT !.cb = one.rows, !.ib = tx.ib + 1]
                /\ UNCHANGED <<commit_branches, commits, ret, call>>
           ELSE /\ tx' = TxIdle
                /\ commit_branches' = DropBehaviorRollback(commit_branches, tx.cb)
                /\ commits' = DropBehaviorRollback(commits, tx.cm)
                /\ Returns("replace_commit_index_for_repo", "rolled_back", Err)
    /\ UNCHANGED <<repos, repos_seq, tags, tags_seq, repo_tags, pg, rd, hostVars>>

\* one stmt.execute of the loop over commits
ReplaceInsertCommit ==
    /\ tx.pc = "insert"
    /\ tx.ib > Len(tx.input.branches)
    /\ tx.ic <= Len(tx.input.commits)
    /\ LET one == InsertCommit(tx.cm, repos, tx.id, tx.input.commits[tx.ic])
       IN  IF one.ok
           THEN /\ tx' = [tx EXCEPT !.cm = one.rows, !.ic = tx.ic + 1]
                /\ UNCHANGED <<commit_branches, commits, ret, call>>
           ELSE /\ tx' = TxIdle
                /\ commit_branches' = DropBehaviorRollback(commit_branches, tx.cb)
                /\ commits' = DropBehaviorRollback(commits, tx.cm)
                /\ Returns("replace_commit_index_for_repo", "rolled_back", Err)
    /\ UNCHANGED <<repos, repos_seq, tags, tags_seq, repo_tags, pg, rd, hostVars>>

\* tx.commit()?
ReplaceCommit ==
    /\ tx.pc = "insert"
    /\ tx.ib > Len(tx.input.branches)
    /\ tx.ic > Len(tx.input.commits)
    /\ commit_branches' = tx.cb
    /\ commits' = tx.cm
    /\ tx' = [tx EXCEPT !.pc = "committed"]
    /\ UNCHANGED <<repos, repos_seq, tags, tags_seq, repo_tags, ret, call, pg, rd, hostVars>>

\* Ok(())
ReplaceReturn ==
    /\ tx.pc = "committed"
    /\ tx' = TxIdle
    /\ Returns("replace_commit_index_for_repo", "committed", Ok(0))
    /\ UNCHANGED <<storeVars, pg, rd, hostVars>>

\* one SELECT of a reader on another connection, such as the item query of
\* search_commits_paged: rd keeps the rows it found and, for the properties,
\* the old and the new index of the replacement that was running
ReaderSelect ==
    /\ rd' = [seen |-> TRUE,
              during |-> tx.pc # "idle",
              id |-> tx.id,
              cb |-> IF WriteLocked THEN OtherConnectionSees(commit_branches, tx.cb) ELSE commit_branches,
              cm |-> IF WriteLocked THEN OtherConnectionSees(commits, tx.cm) ELSE commits,
              old |-> IF tx.pc \in {"idle", "begin"}
                      THEN IndexOf(commit_branches, commits, tx.id) ELSE tx.old,
              new |-> InputRows(tx.id, tx.input)]
    /\ UNCHANGED <<storeVars, ret, call, pg, tx, hostVars>>

\* a scan on another connection indexes a repository; it waits while W
\* holds the write lock
ScanUpsert ==
    /\ ~ WriteLocked
    /\ \E p \in ConcPaths : upsert_repo(RepoMeta(p, Meta1))

NextConc ==
    \/ ScanUpsert
    \/ ReplaceLookup
    \/ ReplaceDeleteBranches
    \/ ReplaceDeleteCommits
    \/ ReplaceInsertBranch
    \/ ReplaceInsertCommit
    \/ ReplaceCommit
    \/ ReplaceReturn
    \/ ReaderSelect

SpecConc == Init /\ [][NextConc]_vars

(***************************************************************************)
(* SpecRace: replace_commit_index_for_repo statement by statement on two   *)
(* connections, W and P, while a scan on a third connection indexes and    *)
(* prunes repositories.  SQLite lets one connection write at a time: the   *)
(* first write of a transaction takes the write lock or, when another      *)
(* connection holds it, waits for it and gives up with SQLITE_BUSY after   *)
(* the busy timeout.                                                       *)
(***************************************************************************)
\* an input that repeats a (refname, oid) pair among the commits
IndexDupCommit == [branches |-> <<Tip_m>>,
                   commits  |-> <<CommitIndexRow(Ref_m, <<"m">>, "c2", Some(2), Some(<<"f">>), None),
                                  CommitIndexRow(Ref_m, <<"m">>, "c2", Some(2), Some(<<"f">>), None)>>]
\* one commit on dev
IndexDev == [branches |-> <<Tip_d>>,
             commits  |-> <<CommitIndexRow(Ref_d, <<"d">>, "c3", Some(2), None, None)>>]
RacePaths   == {P_ax}
PeerIndexes == {IndexDev, IndexDupCommit}

\* P's record: the fields of tx that P uses, and for the properties `met`,
\* the repository and the input of the call of W that was under way when P
\* looked its repository up
NoneMet == [id |-> 0, input |-> IndexEmpty]
PeerStart(p, id, ix) ==
    [pc |-> "begin", id |-> id, input |-> ix, ib |-> 1, ic |-> 1, cb |-> {}, cm |-> {},
     met |-> IF tx.pc = "idle" THEN NoneMet ELSE [id |-> tx.id, input |-> tx.input]]

PeerLookup ==
    \E p \in RacePaths, ix \in PeerIndexes :
        LET repo_id == repo_id_by_path(repos, p)
        IN  /\ peer.pc = "idle"
            /\ IF repo_id = None
               THEN /\ peer' = peer
                    /\ Returns("replace_commit_index_for_repo", "not_indexed", Err)
               ELSE /\ peer' = PeerStart(p, repo_id[1], ix)
                    /\ UNCHANGED <<ret, call>>
            /\ UNCHANGED <<storeVars, pg, tx, rd, fs, walk, git, built, job>>

PeerDeleteBranches ==
    /\ peer.pc = "begin"
    /\ ~ WriteLocked
    /\ peer' = [peer EXCEPT !.pc = "del_commits",
                            !.cb = {x \in commit_branches : x.repo_id # peer.id},
                            !.cm = commits]
    /\ UNCHANGED <<storeVars, ret, call, pg, tx, rd, fs, walk, git, built, job>>

PeerDeleteCommits ==
    /\ peer.pc = "del_commits"
    /\ peer' = [peer EXCEPT !.pc = "insert", !.cm = {x \in peer.cm : x.repo_id # peer.id}]
    /\ UNCHANGED <<storeVars, ret, call, pg, tx, rd, fs, walk, git, built, job>>

PeerInsertBranch ==
    /\ peer.pc = "insert"
    /\ peer.ib <= Len(peer.input.branches)
    /\ LET one == InsertBranch(peer.cb, repos, peer.id, peer.input.branches[peer.ib])
       IN  IF one.ok
           THEN /\ peer' = [peer EXCEPT !.cb = one.rows, !.ib = peer.ib + 1]
                /\ UNCHANGED <<commit_branches, commits, ret, call>>
           ELSE /\ peer' = PeerIdle
                /\ commit_branches' = DropBehaviorRollback(commit_branches, peer.cb)
                /\ commits' = DropBehaviorRollback(commits, peer.cm)
                /\ Returns("replace_commit_index_for_repo", "rolled_back", Err)
    /\ UNCHANGED <<repos, repos_seq, tags, tags_seq, repo_tags, pg, tx, rd, fs, walk, git, built, job>>

PeerInsertCommit ==
    /\ peer.pc = "insert"
    /\ peer.ib > Len(peer.input.branches)
    /\ peer.ic <= Len(peer.input.commits)
    /\ LET one == InsertCommit(peer.cm, repos, peer.id, peer.input.commits[peer.ic])
       IN  IF one.ok
           THEN /\ peer' = [peer EXCEPT !.cm = one.rows, !.ic = peer.ic + 1]
                /\ UNCHANGED <<commit_branches, commits, ret, call>>
           ELSE /\ peer' = PeerIdle
                /\ commit_branches' = DropBehaviorRollback(commit_branches, peer.cb)
                /\ commits' = DropBehaviorRollback(commits, peer.cm)
                /\ Returns("replace_commit_index_for_repo", "rolled_back", Err)
    /\ UNCHANGED <<repos, repos_seq, tags, tags_seq, repo_tags, pg, tx, rd, fs, walk, git, built, job>>

PeerCommit ==
    /\ peer.pc = "insert"
    /\ peer.ib > Len(peer.input.branches)
    /\ peer.ic > Len(peer.input.commits)
    /\ commit_branches' = peer.cb
    /\ commits' = peer.cm
    /\ peer' = [peer EXCEPT !.pc = "committed"]
    /\ UNCHANGED <<repos, repos_seq, tags, tags_seq, repo_tags, ret, call, pg, tx, rd,
                   fs, walk, git, built, job>>

PeerReturn ==
    /\ peer.pc = "committed"
    /\ peer' = PeerIdle
    /\ Returns("replace_commit_index_for_repo", "committed", Ok(0))
    /\ UNCHANGED <<storeVars, pg, tx, rd, fs, walk, git, built, job>>

\* the first DELETE of P finds the write lock taken for longer than the
\* busy timeout: SQLITE_BUSY comes back through `?`
PeerBusy ==
    /\ peer.pc = "begin"
    /\ WriteLocked
    /\ peer' = PeerIdle
    /\ Returns("replace_commit_index_for_repo", "busy", Err)
    /\ UNCHANGED <<storeVars, pg, tx, rd, fs, walk, git, built, job>>

\* the same for W
ReplaceBusy ==
    /\ tx.pc = "begin"
    /\ PeerLocked
    /\ tx' = TxIdle
    /\ Returns("replace_commit_index_for_repo", "busy", Err)
    /\ UNCHANGED <<storeVars, pg, rd, hostVars>>

\* a scan on a third connection: prune_under_root, its DELETE statements
\* wait while a connection holds the write lock
ScanPrune ==
    /\ ~ WriteLocked /\ ~ PeerLocked
    /\ \E keep \in SUBSET RacePaths : prune_under_root(R_a, keep)

ScanIndex ==
    /\ ~ WriteLocked /\ ~ PeerLocked
    /\ \E p \in RacePaths : upsert_repo(RepoMeta(p, Meta1))

NextRace ==
    \/ ScanIndex
    \/ ScanPrune
    \/ ReplaceLookup
    \/ ReplaceDeleteBranches
    \/ ReplaceDeleteCommits
    \/ ReplaceInsertBranch
    \/ ReplaceInsertCommit
    \/ ReplaceCommit
    \/ ReplaceReturn
    \/ ReplaceBusy
    \/ PeerLookup
    \/ PeerDeleteBranches
    \/ PeerDeleteCommits
    \/ PeerInsertBranch
    \/ PeerInsertCommit
    \/ PeerCommit
    \/ PeerReturn
    \/ PeerBusy

SpecRace == Init /\ [][NextRace]_vars

(***************************************************************************)
(* SpecTagRace: add_tag_to_repo statement by statement on connection W     *)
(* while connection P runs remove_tag_from_repo statement by statement and *)
(* a third connection prunes.  Neither operation opens a transaction: each *)
(* statement commits on its own and statements of other connections run in *)
(* between.                                                                *)
(***************************************************************************)
TagRaceAdds    == P_ax
TagRaceRemoves == P_ay
TagRaceTag     == T_be

\* let repo_id = self.repo_id_by_path(repo_path)?.with_context(...)?
AddLookup ==
    LET repo_id == repo_id_by_path(repos, TagRaceAdds)
    IN  /\ tx.pc = "idle"
        /\ IF repo_id = None
           THEN /\ tx' = tx
                /\ Returns("add_tag_to_repo", "not_indexed", Err)
           ELSE /\ tx' = [pc |-> "ensure_insert", id |-> repo_id[1], tag_id |-> None]
                /\ UNCHANGED <<ret, call>>
        /\ UNCHANGED <<storeVars, pg, rd, hostVars>>

\* ensure_tag: INSERT OR IGNORE INTO tags (name) VALUES (?1)
AddEnsureInsert ==
    /\ tx.pc = "ensure_insert"
    /\ IF \E t \in tags : t.name = TagRaceTag
       THEN UNCHANGED <<tags, tags_seq>>
       ELSE /\ tags_seq < MaxTagId
            /\ tags' = tags \cup {[id |-> tags_seq + 1, name |-> TagRaceTag]}
            /\ tags_seq' = tags_seq + 1
    /\ tx' = [tx EXCEPT !.pc = "ensure_select"]
    /\ UNCHANGED <<repos, repos_seq, repo_tags, commit_branches, commits, ret, call, pg, rd, hostVars>>

\* ensure_tag: query_row("SELECT id FROM tags WHERE name = ?1")?, which is
\* Err(QueryReturnedNoRows) when the row is not there
AddEnsureSelect ==
    LET tag_id == tag_id_by_name(tags, TagRaceTag)
    IN  /\ tx.pc = "ensure_select"
        /\ IF tag_id = None
           THEN /\ tx' = TxIdle
                /\ Returns("add_tag_to_repo", "no_tag_row", Err)
           ELSE /\ tx' = [tx EXCEPT !.pc = "associate", !.tag_id = tag_id]
                /\ UNCHANGED <<ret, call>>
        /\ UNCHANGED <<storeVars, pg, rd, hostVars>>

\* INSERT OR IGNORE INTO repo_tags (repo_id, tag_id): OR IGNORE passes over
\* a UNIQUE conflict, a foreign key that has no parent row fails the statement
AddAssociate ==
    /\ tx.pc = "associate"
    /\ IF /\ \E r \in repos : r.id = tx.id
          /\ \E t \in tags : t.id = tx.tag_id[1]
       THEN /\ repo_tags' = repo_tags \cup {[repo_id |-> tx.id, tag_id |-> tx.tag_id[1]]}
            /\ Returns("add_tag_to_repo", IF repo_tags' = repo_tags THEN "again" ELSE "added", Ok(0))
       ELSE /\ repo_tags' = repo_tags
            /\ Returns("add_tag_to_repo", "foreign_key", Err)
    /\ tx' = TxIdle
    /\ UNCHANGED <<repos, repos_seq, tags, tags_seq, commit_branches, commits, pg, rd, hostVars>>

\* remove_tag_from_repo on P: the two lookups
RemoveLookup ==
    LET repo_id == repo_id_by_path(repos, TagRaceRemoves)
        tag_id  == tag_id_by_name(tags, TagRaceTag)
    IN  /\ peer.pc = "idle"
        /\ IF repo_id = None
           THEN /\ peer' = peer
                /\ Returns("remove_tag_from_repo", "not_indexed", Err)
           ELSE IF tag_id = None
           THEN /\ peer' = peer
                /\ Returns("remove_tag_from_repo", "no_tag", Ok(0))
           ELSE /\ peer' = [pc |-> "delete_pair", id |-> repo_id[1], tag_id |-> tag_id[1]]
                /\ UNCHANGED <<ret, call>>
        /\ UNCHANGED <<storeVars, pg, tx, rd, fs, walk, git, built, job>>

\* DELETE FROM repo_tags WHERE repo_id = ?1 AND tag_id = ?2
RemoveDeletePair ==
    /\ peer.pc = "delete_pair"
    /\ repo_tags' = repo_tags \ {[repo_id |-> peer.id, tag_id |-> peer.tag_id]}
    /\ peer' = [peer EXCEPT !.pc = "delete_tag"]
    /\ UNCHANGED <<repos, repos_seq, tags, tags_seq, commit_branches, commits, ret, call,
                   pg, tx, rd, fs, walk, git, built, job>>

\* DELETE FROM tags WHERE id = ?1 AND NOT EXISTS (...); Ok(())
RemoveDeleteTag ==
    /\ peer.pc = "delete_tag"
    /\ tags' = DropTagIfOrphan(tags, repo_tags, peer.tag_id)
    /\ peer' = PeerIdle
    /\ Returns("remove_tag_from_repo", "removed", Ok(0))
    /\ UNCHANGED <<repos, repos_seq, tags_seq, repo_tags, commit_branches, commits,
                   pg, tx, rd, fs, walk, git, built, job>>

\* a scan on a third connection indexes the two repositories
TagRaceIndex == \E p \in {TagRaceAdds, TagRaceRemoves} : upsert_repo(RepoMeta(p, Meta1))

\* a call of add_tag_to_repo that no other statement interrupts
TagRaceTagged == \E p \in {TagRaceAdds, TagRaceRemoves} : add_tag_to_repo(p, TagRaceTag)

\* prune_missing_paths on a third connection, with the repository the tag is
\* removed from on disk or gone
TagRacePrune ==
    \E exists \in {{TagRaceAdds, TagRaceRemoves}, {TagRaceAdds}} : prune_missing_paths(exists)

NextTagRace ==
    \/ TagRaceIndex
    \/ TagRaceTagged
    \/ TagRacePrune
    \/ AddLookup
    \/ AddEnsureInsert
    \/ AddEnsureSelect
    \/ AddAssociate
    \/ RemoveLookup
    \/ RemoveDeletePair
    \/ RemoveDeleteTag

SpecTagRace == Init /\ [][NextTagRace]_vars

(***************************************************************************)
(* The paged reads.  Each is the set of Paged { total, items } values the  *)
(* call can return: SQLite leaves the order of rows with equal ORDER BY    *)
(* keys undefined, so every order of such rows is a possible result of     *)
(* every execution of the item query.                                      *)
(***************************************************************************)
PerPageMax == 200

Max(a, b) == IF a >= b THEN a ELSE b
Min(a, b) == IF a <= b THEN a ELSE b
Clamp(x, lo, hi) == Max(lo, Min(x, hi))

\* usize arithmetic.  (page - 1) * per_page above usize::MAX panics in a
\* build with overflow checks (the dev profile) and wraps in a build without
\* (the release profile): None is the panic.
UsizeMax == 2 ^ UsizeBits - 1

MulUsize(a, b) ==
    IF a * b <= UsizeMax THEN {Some(a * b)}
    ELSE {None, Some((a * b) % (UsizeMax + 1))}

\* `offset as i64`, the signed integer of the same width
AsI64(x) == IF x >= 2 ^ (UsizeBits - 1) THEN x - 2 ^ UsizeBits ELSE x

\* the byte of a character, for the BINARY collation of ORDER BY
Code(c) ==
    CASE c = "%" -> 37 [] c = "." -> 46 [] c = "/" -> 47 [] c = "A" -> 65 [] c = "B" -> 66
      [] c = "F" -> 70 [] c = "X" -> 88 [] c = "_" -> 95 [] c = "a" -> 97
      [] c = "b" -> 98 [] c = "d" -> 100 [] c = "e" -> 101 [] c = "f" -> 102
      [] c = "g" -> 103 [] c = "h" -> 104 [] c = "i" -> 105 [] c = "m" -> 109
      [] c = "o" -> 111 [] c = "r" -> 114 [] c = "t" -> 116 [] c = "u" -> 117
      [] c = "v" -> 118 [] c = "x" -> 120 [] c = "y" -> 121 [] c = "z" -> 122

RECURSIVE StrLess(_, _)
StrLess(a, b) ==
    IF b = <<>> THEN FALSE
    ELSE IF a = <<>> THEN TRUE
    ELSE IF Code(Head(a)) # Code(Head(b)) THEN Code(Head(a)) < Code(Head(b))
    ELSE StrLess(Tail(a), Tail(b))

\* the sequences ORDER BY can deliver for the rows S, before being the
\* pairs <<a, b>> whose sort keys put a strictly ahead of b
Orders(S, before) ==
    {f \in [1..Cardinality(S) -> S] :
        \A i, j \in 1..Cardinality(S) : i < j => (f[i] # f[j] /\ <<f[j], f[i]>> \notin before)}

\* LIMIT n OFFSET offset
Slice(seq, offset, n) ==
    IF offset >= Len(seq) THEN <<>> ELSE SubSeq(seq, offset + 1, Min(offset + n, Len(seq)))

\* the thread of a call that panicked returns nothing
Panicked == [ok |-> FALSE, total |-> 0, items |-> <<>>]

\* Ok(Paged { total, items }) for every order the item query can deliver and
\* every outcome of the offset computation; SQLite reads a negative OFFSET
\* as 0
PagedResults(total, orders, offsets, per_page) ==
    {IF o = None THEN Panicked
     ELSE [ok |-> TRUE, total |-> total, items |-> Slice(ord, Max(AsI64(o[1]), 0), per_page)] :
        o \in offsets, ord \in orders}

\* FROM repos r LEFT JOIN repo_tags rt ON rt.repo_id = r.id
\*              LEFT JOIN tags t ON t.id = rt.tag_id: t is the tag name or NULL
JoinRows ==
    {[r |-> r, t |-> Some(t.name)] :
        <<r, t>> \in {x \in repos \X tags :
                        \E rt \in repo_tags : rt.repo_id = x[1].id /\ rt.tag_id = x[2].id}}
    \cup {[r |-> r, t |-> None] : r \in {x \in repos : ~ \E rt \in repo_tags : rt.repo_id = x.id}}

\* no field selected searches every field
RepoFieldFlagsAsGiven(in_name, in_path, in_readme, in_tags) ==
    <<in_name, in_path, in_readme, in_tags>>
RepoFieldFlags(in_name, in_path, in_readme, in_tags) ==
    IF ~ (in_name \/ in_path \/ in_readme \/ in_tags) THEN <<TRUE, TRUE, TRUE, TRUE>>
    ELSE <<in_name, in_path, in_readme, in_tags>>

CommitFieldFlags(in_summary, in_message) ==
    IF ~ (in_summary \/ in_message) THEN <<TRUE, TRUE>> ELSE <<in_summary, in_message>>

\* where_parts.join(" OR ") applied to one joined row
RepoWhere(jr, q, in_name, in_path, in_readme, in_tags) ==
    \/ in_name /\ Like(q, jr.r.name)
    \/ in_path /\ Like(q, jr.r.path)
    \/ in_readme /\ Like(q, Coalesce(jr.r.readme_excerpt, <<>>))
    \/ in_tags /\ Like(q, Coalesce(jr.t, <<>>))

\* SELECT COUNT(DISTINCT r.id)
CountJoinRows(rows) == Cardinality(rows)
CountDistinctRepos(rows) == Cardinality({jr.r.id : jr \in rows})

\* GROUP BY r.id with GROUP_CONCAT(t.name, ','), split again at ',': one
\* RepoWithTags per repository among the rows; tags are kept as a set
GroupByRepo(rows) ==
    {[repo |-> r, tags |-> {jr.t[1] : jr \in {x \in rows : x.r.id = r.id /\ x.t # None}}] :
        r \in {jr.r : jr \in rows}}

NameAsc(a, b) == StrLess(a.repo.name, b.repo.name)
RecentFirstOldestAhead(a, b) ==
    LET ka == Coalesce(a.repo.last_access_ts, 0)
        kb == Coalesce(b.repo.last_access_ts, 0)
    IN  ka < kb \/ (ka = kb /\ StrLess(a.repo.name, b.repo.name))
RecentFirst(a, b) ==
    LET ka == Coalesce(a.repo.last_access_ts, 0)
        kb == Coalesce(b.repo.last_access_ts, 0)
    IN  ka > kb \/ (ka = kb /\ StrLess(a.repo.name, b.repo.name))

search_repos_with_tags_paged_filtered(query, in_name, in_path, in_readme, in_tags, page, per_page) ==
    LET pg1    == Max(page, 1)
        pp     == Clamp(per_page, 1, PerPageMax)
        offset == MulUsize(pg1 - 1, pp)
        q      == Wrap(query)
        f      == RepoFieldFlags(in_name, in_path, in_readme, in_tags)
        rows   == {jr \in JoinRows : RepoWhere(jr, q, f[1], f[2], f[3], f[4])}
        total  == CountDistinctRepos(rows)
        groups == GroupByRepo(rows)
        orders == Orders(groups, {x \in groups \X groups : NameAsc(x[1], x[2])})
    IN  PagedResults(total, orders, offset, pp)

\* WHERE EXISTS (SELECT 1 FROM repo_tags rt2 JOIN tags t2 ... AND t2.name = ?1)
CarriesTag(r, tag) ==
    \E rt \in repo_tags, t \in tags : rt.repo_id = r.id /\ t.id = rt.tag_id /\ t.name = tag

list_repos_with_tags_paged(tag, recent, page, per_page) ==
    LET pg1    == Max(page, 1)
        pp     == Clamp(per_page, 1, PerPageMax)
        offset == MulUsize(pg1 - 1, pp)
        hit    == IF tag = None THEN repos ELSE {r \in repos : CarriesTag(r, tag[1])}
        total  == Cardinality(hit)
        groups == GroupByRepo({jr \in JoinRows : jr.r \in hit})
        orders == IF recent THEN Orders(groups, {x \in groups \X groups : RecentFirst(x[1], x[2])})
                  ELSE Orders(groups, {x \in groups \X groups : NameAsc(x[1], x[2])})
    IN  PagedResults(total, orders, offset, pp)

\* where_parts.join(" OR ") applied to one commits row
CommitWhere(c, q, in_summary, in_message) ==
    \/ in_summary /\ c.summary # None /\ Like(q, c.summary[1])
    \/ in_message /\ Like(q, Coalesce(c.message, <<>>))

\* c.branch_name LIKE ?2 OR c.refname LIKE ?2
BranchWhere(c, b) == Like(b, c.branch_name) \/ Like(b, c.refname)

CommitHit(r, c) ==
    [repo_name |-> r.name, repo_path |-> r.path, branch_kind |-> c.branch_kind,
     branch_name |-> c.branch_name, refname |-> c.refname, oid |-> c.oid, time |-> c.time,
     summary |-> c.summary, message |-> c.message]

TimeDesc(a, b) == Coalesce(a.time, 0) > Coalesce(b.time, 0)

search_commits_paged(query, branch, in_summary, in_message, page, per_page) ==
    LET pg1    == Max(page, 1)
        pp     == Clamp(per_page, 1, PerPageMax)
        offset == MulUsize(pg1 - 1, pp)
        q      == Wrap(query)
        f      == CommitFieldFlags(in_summary, in_message)
        match(c) == /\ CommitWhere(c, q, f[1], f[2])
                    /\ (branch = None \/ BranchWhere(c, Wrap(branch[1])))
        joined == {x \in repos \X commits : x[1].id = x[2].repo_id /\ match(x[2])}
        total  == IF branch # None THEN Cardinality(joined)
                  ELSE Cardinality({c \in commits : match(c)})
        hits   == {CommitHit(x[1], x[2]) : x \in joined}
        orders == Orders(hits, {x \in hits \X hits : TimeDesc(x[1], x[2])})
    IN  PagedResults(total, orders, offset, pp)

(***************************************************************************)
(* SpecPage: a client reads one query page by page, from page 1 until a    *)
(* page reaches the reported total, against a store that does not change.  *)
(***************************************************************************)
PageMetas  == {Meta1, Meta2}
PageAccess == {None, Some(1)}

\* three indexed repositories; the first carries two tags and the index
\* IndexNew, the second one tag and the index IndexOld
StoreForPaging(m, a) ==
    /\ repos = {[NewRepoRow(1, RepoMeta(P_ax, m[1])) EXCEPT !.last_access_ts = a[1]],
                [NewRepoRow(2, RepoMeta(P_ay, m[2])) EXCEPT !.last_access_ts = a[2]],
                [NewRepoRow(3, RepoMeta(P_bz, m[3])) EXCEPT !.last_access_ts = a[3]]}
    /\ repos_seq = 3
    /\ tags = {[id |-> 1, name |-> T_be], [id |-> 2, name |-> T_re]}
    /\ tags_seq = 2
    /\ repo_tags = {[repo_id |-> 1, tag_id |-> 1], [repo_id |-> 1, tag_id |-> 2],
                    [repo_id |-> 2, tag_id |-> 1]}
    /\ commit_branches = InputRows(1, IndexNew).branches \cup InputRows(2, IndexOld).branches
    /\ commits = InputRows(1, IndexNew).commits \cup InputRows(2, IndexOld).commits

InitPage ==
    /\ \E m \in [1..3 -> PageMetas], a \in [1..3 -> PageAccess] : StoreForPaging(m, a)
    /\ ret = Ok(0) /\ call = NoCall
    /\ pg = PgIdle /\ tx = TxIdle /\ rd = RdNone
    /\ HostIdle

PerPages == 1..MaxPerPage

RepoSearches ==
    {[NoQuery EXCEPT !.kind = "search", !.query = qu, !.in_a = f[1], !.in_b = f[2],
                     !.in_c = f[3], !.in_d = f[4], !.per_page = pp] :
        qu \in {<<>>, <<"f">>, <<"e">>},
        f \in {<<FALSE, FALSE, FALSE, FALSE>>, <<TRUE, TRUE, TRUE, TRUE>>,
               <<FALSE, FALSE, TRUE, FALSE>>, <<FALSE, FALSE, FALSE, TRUE>>},
        pp \in PerPages}

RepoLists ==
    {[NoQuery EXCEPT !.kind = "list", !.tag = t, !.recent = rc, !.per_page = pp] :
        t \in {None, Some(T_be)}, rc \in BOOLEAN, pp \in PerPages}

CommitSearches ==
    {[NoQuery EXCEPT !.kind = "commits", !.query = qu, !.branch = b, !.in_a = f[1],
                     !.in_b = f[2], !.per_page = pp] :
        qu \in {<<>>, <<"f">>}, b \in {None, Some(<<"m">>)},
        f \in {<<FALSE, FALSE>>, <<TRUE, FALSE>>, <<FALSE, TRUE>>},
        pp \in PerPages}

\* the client decides what to read
StartPaging ==
    /\ pg.state = "idle"
    /\ \E q \in RepoSearches \cup RepoLists \cup CommitSearches :
          pg' = [PgIdle EXCEPT !.state = "paging", !.q = q]
    /\ UNCHANGED <<storeVars, ret, call, tx, rd, hostVars>>

\* the client takes the page it got and asks for the next one unless this
\* page reached the total
Fetched(res) ==
    /\ pg' = [pg EXCEPT !.acc = pg.acc \o res.items,
                        !.totals = Append(pg.totals, res.total),
                        !.page = pg.page + 1,
                        !.state = IF pg.page * Clamp(pg.q.per_page, 1, PerPageMax) >= res.total
                                  THEN "done" ELSE "paging"]
    /\ UNCHANGED <<storeVars, ret, call, tx, rd, hostVars>>

FetchRepoSearchPage ==
    /\ pg.state = "paging" /\ pg.q.kind = "search"
    /\ \E res \in search_repos_with_tags_paged_filtered(pg.q.query, pg.q.in_a, pg.q.in_b,
                        pg.q.in_c, pg.q.in_d, pg.page, pg.q.per_page) : Fetched(res)

FetchRepoListPage ==
    /\ pg.state = "paging" /\ pg.q.kind = "list"
    /\ \E res \in list_repos_with_tags_paged(pg.q.tag, pg.q.recent, pg.page, pg.q.per_page) :
          Fetched(res)

FetchCommitSearchPage ==
    /\ pg.state = "paging" /\ pg.q.kind = "commits"
    /\ \E res \in search_commits_paged(pg.q.query, pg.q.branch, pg.q.in_a, pg.q.in_b,
                        pg.page, pg.q.per_page) : Fetched(res)

NextPage ==
    \/ StartPaging
    \/ FetchRepoSearchPage
    \/ FetchRepoListPage
    \/ FetchCommitSearchPage

SpecPage == InitPage /\ [][NextPage]_vars

(***************************************************************************)
(* The reads that are not paged.                                           *)
(***************************************************************************)
RowNameAsc(a, b) == StrLess(a.name, b.name)
RowRecentFirst(a, b) ==
    LET ka == Coalesce(a.last_access_ts, 0)
        kb == Coalesce(b.last_access_ts, 0)
    IN  ka > kb \/ (ka = kb /\ StrLess(a.name, b.name))

\* list_repos: the Vec<RepoRow> values it can return
list_repos(tag, recent) ==
    LET hit == IF tag = None THEN repos ELSE {r \in repos : CarriesTag(r, tag[1])}
    IN  IF recent THEN Orders(hit, {x \in hit \X hit : RowRecentFirst(x[1], x[2])})
        ELSE Orders(hit, {x \in hit \X hit : RowNameAsc(x[1], x[2])})

\* list_repo_tags: None for the error of a path that is not indexed, else
\* the tag names ORDER BY t.name ASC
list_repo_tags(repo_path) ==
    LET repo_id == repo_id_by_path(repos, repo_path)
        names   == {t.name : t \in {x \in tags : \E rt \in repo_tags :
                                        rt.tag_id = x.id /\ rt.repo_id = repo_id[1]}}
    IN  IF repo_id = None THEN {None}
        ELSE {Some(ord) : ord \in Orders(names, {x \in names \X names : StrLess(x[1], x[2])})}

\* Path::new(input).is_absolute() on a Unix target
IsAbsolute(input) == input # <<>> /\ Head(input) = "/"

\* resolve_repo_path: the Option<String> values it can return; LIMIT 1 takes
\* any of the rows that are first in ORDER BY name ASC
resolve_repo_path(input) ==
    IF IsAbsolute(input)
    THEN {IF \E r \in repos : r.path = input THEN Some(input) ELSE None}
    ELSE LET q   == Wrap(input)
             hit == {r \in repos : Like(q, r.name) \/ Like(q, r.path)}
         IN  IF hit = {} THEN {None}
             ELSE {Some(r.path) : r \in {x \in hit : \A y \in hit : ~ StrLess(y.name, x.name)}}

(***************************************************************************)
(* SpecRead: single reads with any page and page size, query texts with    *)
(* upper-case letters and LIKE wildcards, repositories that were and were  *)
(* not accessed, and commits without a time.                               *)
(***************************************************************************)
ReadAccess == {None, Some(1), Some(2)}
ReadIndexes == {IndexNew, IndexTimes}

\* three indexed repositories named f, x and x; the first two carry tags,
\* the first has the commit index ix, the second IndexOld
StoreForReading(a, ix) ==
    /\ repos = {[NewRepoRow(1, RepoMeta(P_ax, Meta3)) EXCEPT !.last_access_ts = a[1]],
                [NewRepoRow(2, RepoMeta(P_ay, Meta4)) EXCEPT !.last_access_ts = a[2]],
                [NewRepoRow(3, RepoMeta(P_bz, Meta1)) EXCEPT !.last_access_ts = a[3]]}
    /\ repos_seq = 3
    /\ tags = {[id |-> 1, name |-> T_be], [id |-> 2, name |-> T_re]}
    /\ tags_seq = 2
    /\ repo_tags = {[repo_id |-> 1, tag_id |-> 1], [repo_id |-> 1, tag_id |-> 2],
                    [repo_id |-> 2, tag_id |-> 1]}
    /\ commit_branches = InputRows(1, ix).branches \cup InputRows(2, IndexOld).branches
    /\ commits = InputRows(1, ix).commits \cup InputRows(2, IndexOld).commits

InitRead ==
    /\ \E a \in [1..3 -> ReadAccess], ix \in ReadIndexes :
          /\ a[2] # Some(2) /\ a[3] # Some(2)
          /\ StoreForReading(a, ix)
    /\ ret = Ok(0) /\ call = NoCall
    /\ pg = PgIdle /\ tx = TxIdle /\ rd = RdNone
    /\ HostIdle

\* <<page, per_page>> as a request can carry them
ReadPageArgs ==
    ({0, 1, 2} \X {0, 1, PerPageMax + 1}) \cup {<<1, MaxPerPage>>, <<UsizeMax, MaxPerPage>>}

ReadTexts == {<<>>, <<"f">>, <<"F">>, <<"e">>, <<"_">>, <<"b">>}

ReadRepoSearches ==
    {[NoQuery EXCEPT !.kind = "search", !.query = qu, !.in_a = f[1], !.in_b = f[2],
                     !.in_c = f[3], !.in_d = f[4]] :
        qu \in ReadTexts,
        f \in {<<FALSE, FALSE, FALSE, FALSE>>, <<TRUE, TRUE, TRUE, TRUE>>,
               <<TRUE, FALSE, FALSE, FALSE>>, <<FALSE, FALSE, TRUE, FALSE>>,
               <<FALSE, FALSE, FALSE, TRUE>>}}

ReadRepoLists ==
    {[NoQuery EXCEPT !.kind = "list", !.tag = t, !.recent = rc] :
        t \in {None, Some(T_be)}, rc \in BOOLEAN}

ReadCommitSearches ==
    {[NoQuery EXCEPT !.kind = "commits", !.query = qu, !.branch = b, !.in_a = f[1], !.in_b = f[2]] :
        qu \in {<<>>, <<"f">>, <<"_">>}, b \in {None, Some(<<"m">>), Some(<<"_">>)},
        f \in {<<FALSE, FALSE>>, <<TRUE, TRUE>>, <<TRUE, FALSE>>, <<FALSE, TRUE>>}}

ReadInputs == {P_ax, P_a, <<>>, <<"x">>, <<"X">>, <<"z">>, <<"_">>, <<"y">>, <<"e">>}

\* the caller holds what one paged read returned
ReadReturned(op, q, args, res) ==
    /\ pg' = [state |-> "read", q |-> [q EXCEPT !.per_page = args[2]], page |-> args[1],
              acc |-> res.items, totals |-> <<res.total>>]
    /\ Returns(op, IF res.ok THEN "ok" ELSE "panic", IF res.ok THEN Ok(Len(res.items)) ELSE Err)
    /\ UNCHANGED <<storeVars, tx, rd, hostVars>>

ReadRepoSearch ==
    /\ pg.state = "idle"
    /\ \E q \in ReadRepoSearches, args \in ReadPageArgs :
          \E res \in search_repos_with_tags_paged_filtered(q.query, q.in_a, q.in_b, q.in_c,
                                                           q.in_d, args[1], args[2]) :
              ReadReturned("search_repos_with_tags_paged_filtered", q, args, res)

ReadRepoList ==
    /\ pg.state = "idle"
    /\ \E q \in ReadRepoLists, args \in ReadPageArgs :
          \E res \in list_repos_with_tags_paged(q.tag, q.recent, args[1], args[2]) :
              ReadReturned("list_repos_with_tags_paged", q, args, res)

ReadCommitSearch ==
    /\ pg.state = "idle"
    /\ \E q \in ReadCommitSearches, args \in ReadPageArgs :
          \E res \in search_commits_paged(q.query, q.branch, q.in_a, q.in_b, args[1], args[2]) :
              ReadReturned("search_commits_paged", q, args, res)

ReadListRepos ==
    /\ pg.state = "idle"
    /\ \E q \in ReadRepoLists : \E rows \in list_repos(q.tag, q.recent) :
          /\ pg' = [state |-> "read", q |-> [q EXCEPT !.kind = "list_repos"], page |-> 1,
                    acc |-> rows, totals |-> <<>>]
          /\ Returns("list_repos", "ok", Ok(Len(rows)))
    /\ UNCHANGED <<storeVars, tx, rd, hostVars>>

ResolveRepoPath ==
    /\ pg.state = "idle"
    /\ \E input \in ReadInputs : \E found \in resolve_repo_path(input) :
          /\ pg' = [state |-> "read", q |-> [NoQuery EXCEPT !.kind = "resolve", !.query = input],
                    page |-> 1, acc |-> found, totals |-> <<>>]
          /\ Returns("resolve_repo_path", IF found = None THEN "none" ELSE "found", Ok(Len(found)))
    /\ UNCHANGED <<storeVars, tx, rd, hostVars>>

\* the caller lets go of the result
ReadDone ==
    /\ pg.state = "read"
    /\ pg' = PgIdle
    /\ ret' = Ok(0) /\ call' = NoCall
    /\ UNCHANGED <<storeVars, tx, rd, hostVars>>

NextRead ==
    \/ ReadRepoSearch
    \/ ReadRepoList
    \/ ReadCommitSearch
    \/ ReadListRepos
    \/ ResolveRepoPath
    \/ ReadDone

SpecRead == InitRead /\ [][NextRead]_vars

(***************************************************************************)
(* The directory scanner (src/src/scan.rs).  A path is the sequence of its *)
(* components, a component a text.  fs.dirs are the directories of the     *)
(* tree, fs.others its entries that are not directories (files, and        *)
(* symbolic links, which the walker does not follow).                      *)
(***************************************************************************)
MaxScanDepth == 3  \* largest max_depth a scan is given

DotGit == <<".", "g", "i", "t">>
N_r == <<"r">>
N_a == <<"a">>
N_b == <<"b">>
N_v == <<"v">>

ScanRoot == <<N_r>>

\* the directories a tree is drawn from: a repository at the root, one in
\* a, one nested in it at a/b, one in b and one below b/v
TreeDirs ==
    { <<N_r>>, <<N_r, DotGit>>,
      <<N_r, N_a>>, <<N_r, N_a, DotGit>>,
      <<N_r, N_a, N_b>>, <<N_r, N_a, N_b, DotGit>>,
      <<N_r, N_b>>, <<N_r, N_b, DotGit>>,
      <<N_r, N_b, N_v>>, <<N_r, N_b, N_v, N_a>>, <<N_r, N_b, N_v, N_a, DotGit>> }
\* entries that may be something else than a directory: a .git file, a
\* symbolic link named v
TreeOthers == { <<N_r, N_a, DotGit>>, <<N_r, N_b, N_v>> }

Parent(p) == SubSeq(p, 1, Len(p) - 1)
FileName(p) == p[Len(p)]
IsPrefix(p, q) == Len(p) <= Len(q) /\ SubSeq(q, 1, Len(p)) = p

Trees ==
    {t \in [dirs : SUBSET TreeDirs, others : SUBSET TreeOthers] :
        /\ ScanRoot \in t.dirs
        /\ t.dirs \cap t.others = {}
        /\ \A p \in (t.dirs \cup t.others) \ {ScanRoot} : Parent(p) \in t.dirs}

\* std::fs::read_dir of a directory
ReadDir(p) == {q \in fs.dirs \cup fs.others : Len(q) = Len(p) + 1 /\ Parent(q) = p}

\* Ord of PathBuf: component by component, a component by its bytes
RECURSIVE PathLess(_, _)
PathLess(p, q) ==
    IF q = <<>> THEN FALSE
    ELSE IF p = <<>> THEN TRUE
    ELSE IF Head(p) # Head(q) THEN StrLess(Head(p), Head(q))
    ELSE PathLess(Tail(p), Tail(q))

\* repos.into_iter().collect() followed by repos.sort()
SortedLast(S) ==
    CHOOSE f \in Orders(S, {x \in S \X S : PathLess(x[2], x[1])}) : TRUE
Sorted(S) ==
    CHOOSE f \in Orders(S, {x \in S \X S : PathLess(x[1], x[2])}) : TRUE

\* IntoIter::skip_current_dir: the walker leaves the directory it is in
SkipParentDir(stack) ==
    IF Len(stack) <= 1 THEN <<>> ELSE SubSeq(stack, 1, Len(stack) - 2)
SkipCurrentDir(stack) ==
    IF stack = <<>> THEN stack ELSE SubSeq(stack, 1, Len(stack) - 1)

\* IntoIter::next before it reads an entry: it leaves a directory that lies
\* deeper than max_depth allows and a directory whose entries are used up
RECURSIVE SettleOneDeeper(_, _)
SettleOneDeeper(stack, max_depth) ==
    IF stack = <<>> THEN stack
    ELSE IF (max_depth # None /\ Len(stack) > max_depth[1] + 1) \/ stack[Len(stack)] = {}
         THEN SettleOneDeeper(SkipCurrentDir(stack), max_depth)
         ELSE stack

RECURSIVE Settle(_, _)
Settle(stack, max_depth) ==
    IF stack = <<>> THEN stack
    ELSE IF (max_depth # None /\ Len(stack) > max_depth[1]) \/ stack[Len(stack)] = {}
         THEN Settle(SkipCurrentDir(stack), max_depth)
         ELSE stack

\* ignore_dir_names.contains(name)
IgnoresNothing(ignore_dir_names, name) == FALSE
Ignores(ignore_dir_names, name) == name \in ignore_dir_names

\* one entry the walker yields and the loop body run on it; stack is the
\* walker's stack of opened directories, each with its entries not yet read
Visit(entry, stack) ==
    LET entered == IF entry \in fs.dirs THEN Append(stack, ReadDir(entry)) ELSE stack
        name == FileName(entry)
    IN  IF entry \notin fs.dirs
        THEN walk' = [walk EXCEPT !.pc = "walking",
                                  !.stack = Settle(entered, walk.max_depth)]
        ELSE IF name = DotGit
        THEN walk' = [walk EXCEPT !.pc = "walking",
                                  !.repos = @ \cup {Parent(entry)},
                                  !.stack = Settle(SkipCurrentDir(entered), walk.max_depth)]
        ELSE IF Ignores(walk.ignore_dir_names, name)
        THEN walk' = [walk EXCEPT !.pc = "walking",
                                  !.stack = Settle(SkipCurrentDir(entered), walk.max_depth)]
        ELSE walk' = [walk EXCEPT !.pc = "walking",
                                  !.stack = Settle(entered, walk.max_depth)]

ScanDepths == {None} \cup {Some(d) : d \in 0..MaxScanDepth}
ScanIgnores == {{}, {N_v}, {N_a}, {N_r}}

WalkStart(root, max_depth, ignore_dir_names) ==
    [pc |-> "start", root |-> root, max_depth |-> max_depth,
     ignore_dir_names |-> ignore_dir_names,
     stack |-> <<>>, repos |-> {}, out |-> <<>>, prev |-> None]

InitScan ==
    /\ EmptyStore
    /\ ret = Ok(0) /\ call = NoCall
    /\ pg = PgIdle /\ tx = TxIdle /\ rd = RdNone
    /\ git = GitNone /\ built = BuiltIdle /\ job = JobIdle /\ peer = PeerIdle
    /\ fs \in Trees
    /\ \E d \in ScanDepths, ig \in ScanIgnores : walk = WalkStart(ScanRoot, d, ig)

scanFrame == <<storeVars, ret, call, pg, tx, rd, fs, git, built, job, peer>>

\* the walker yields the root itself first
WalkRoot ==
    /\ walk.pc = "start"
    /\ Visit(walk.root, <<>>)
    /\ UNCHANGED scanFrame

\* the walker yields one more entry of the directory it is in; the order
\* of a directory's entries is the operating system's
WalkEntry ==
    /\ walk.pc = "walking"
    /\ walk.stack # <<>>
    /\ \E entry \in walk.stack[Len(walk.stack)] :
          Visit(entry, [walk.stack EXCEPT ![Len(walk.stack)] = @ \ {entry}])
    /\ UNCHANGED scanFrame

\* the walker is exhausted: the set found is sorted and returned
WalkReturn ==
    /\ walk.pc = "walking"
    /\ walk.stack = <<>>
    /\ walk' = [walk EXCEPT !.pc = "done", !.out = Sorted(walk.repos)]
    /\ UNCHANGED scanFrame

\* the same scan is run once more over the unchanged tree
ScanAgain ==
    /\ walk.pc = "done"
    /\ walk.prev = None
    /\ walk' = [WalkStart(walk.root, walk.max_depth, walk.ignore_dir_names)
                    EXCEPT !.prev = Some(walk.out)]
    /\ UNCHANGED scanFrame

NextScan ==
    \/ WalkRoot
    \/ WalkEntry
    \/ WalkReturn
    \/ ScanAgain

SpecScan == InitScan /\ [][NextScan]_vars

(***************************************************************************)
(* The metadata extractor (src/src/scan.rs).  A path is the sequence of    *)
(* its components below the root directory; fs.readme[i] is what lies at   *)
(* the i-th README candidate: nothing, something read_to_string fails on   *)
(* (a directory, bytes that are not UTF-8, a file without read permission) *)
(* or a text.  git is what Repository::open finds.                         *)
(***************************************************************************)
MaxReadmeChars == 4   \* longest README text that is enumerated character by character
ExcerptLines == 10
ExcerptChars == 280

DotDot == <<".", ".">>

\* Path::file_name: None for the root directory and for a path that ends in ..
file_name_or_empty(p) ==
    IF p = <<>> THEN None
    ELSE IF p[Len(p)] = DotDot THEN Some(<<>>) ELSE Some(p[Len(p)])
file_name(p) ==
    IF p = <<>> \/ p[Len(p)] = DotDot THEN None ELSE Some(p[Len(p)])

\* Path::to_string_lossy of an absolute path
RECURSIVE PathText(_)
PathText(p) ==
    IF p = <<>> THEN <<>>
    ELSE PathText(SubSeq(p, 1, Len(p) - 1)) \o MAIN_SEPARATOR \o p[Len(p)]
to_string_lossy(p) == IF p = <<>> THEN MAIN_SEPARATOR ELSE PathText(p)

\* str::lines: the text is split at \n, a \r right before the \n goes with
\* it, and a text that ends in \n has no empty last line
RECURSIVE lines(_)
lines(s) ==
    IF s = <<>> THEN <<>>
    ELSE LET at == {i \in 1..Len(s) : s[i] = "\n"}
         IN  IF at = {} THEN <<s>>
             ELSE LET n    == CHOOSE i \in at : \A j \in at : i <= j
                      line == SubSeq(s, 1, n - 1)
                      bare == IF line # <<>> /\ line[Len(line)] = "\r"
                              THEN SubSeq(line, 1, Len(line) - 1) ELSE line
                  IN  <<bare>> \o lines(SubSeq(s, n + 1, Len(s)))

\* l.trim().is_empty()
WhiteSpace == {" ", "\t", "\r"}
IsBlank(l) == \A i \in 1..Len(l) : l[i] \in WhiteSpace

\* .filter(|l| !l.trim().is_empty())
RECURSIVE NonBlank(_)
NonBlank(ls) ==
    IF ls = <<>> THEN <<>>
    ELSE IF IsBlank(Head(ls)) THEN NonBlank(Tail(ls))
    ELSE <<Head(ls)>> \o NonBlank(Tail(ls))

\* Iterator::take and chars().take(n).collect()
Take(sq, n) == SubSeq(sq, 1, IF Len(sq) < n THEN Len(sq) ELSE n)

\* .join(" ")
RECURSIVE JoinSpace(_)
JoinSpace(ls) ==
    IF ls = <<>> THEN <<>>
    ELSE IF Len(ls) = 1 THEN ls[1]
    ELSE ls[1] \o <<" ">> \o JoinSpace(Tail(ls))

candidates == <<"README.md", "Readme.md", "README.MD", "README">>

Missing == [kind |-> "absent"]
Unreadable == [kind |-> "unreadable"]
TextFile(s) == [kind |-> "text", text |-> s]

\* candidates.iter().map(|n| repo_root.join(n)).find(|p| p.exists())
FirstReadable(files) ==
    LET there == {i \in 1..Len(candidates) : files[i].kind = "text"}
    IN  IF there = {} THEN None ELSE Some(CHOOSE i \in there : \A j \in there : i <= j)
FirstExisting(files) ==
    LET there == {i \in 1..Len(candidates) : files[i] # Missing}
    IN  IF there = {} THEN None ELSE Some(CHOOSE i \in there : \A j \in there : i <= j)

ExcerptOf(s) == Take(JoinSpace(Take(NonBlank(lines(s)), ExcerptLines)), ExcerptChars)

\* Result<String>: .context("no readme")?, read_to_string(..)?, Ok(excerpt)
read_readme_excerpt(files) ==
    LET readme == FirstExisting(files)
    IN  IF readme = None THEN [ok |-> FALSE, v |-> <<>>]
        ELSE IF files[readme[1]].kind # "text" THEN [ok |-> FALSE, v |-> <<>>]
        ELSE [ok |-> TRUE, v |-> ExcerptOf(files[readme[1]].text)]

\* Result::ok
ResultOk(r) == IF r.ok THEN Some(r.v) ELSE None

\* what Repository::open found: origin is find_remote("origin") (None when
\* it fails, else the remote's url, itself an Option), remotes the urls of
\* the remotes in the order repo.remotes() lists them, head is repo.head()
\* (None when it fails)
GitRepo(origin, remotes, head) == [origin |-> origin, remotes |-> remotes, head |-> head]
HeadRef(is_branch, shorthand, time) ==
    [is_branch |-> is_branch, shorthand |-> shorthand, time |-> time]

\* the loop over repo.remotes(): the first url that is there
RECURSIVE FirstUrl(_)
FirstUrl(remotes) ==
    IF remotes = <<>> THEN None
    ELSE IF Head(remotes) # None THEN Head(remotes) ELSE FirstUrl(Tail(remotes))

OriginUrl(repo) == IF repo.origin # None THEN repo.origin[1] ELSE FirstUrl(repo.remotes)
DefaultBranch(repo) ==
    IF repo.head # None /\ repo.head[1].is_branch THEN repo.head[1].shorthand ELSE None
LastCommitTs(repo) == IF repo.head # None THEN repo.head[1].time ELSE None

\* canon is what std::fs::canonicalize returns, None for an error
read_repo_metadata(repo_root, canon, opened, files, now) ==
    LET root == IF canon = None THEN repo_root ELSE canon[1]
        name == IF file_name(root) = None THEN to_string_lossy(root) ELSE file_name(root)[1]
    IN  [ok |-> TRUE,
         meta |-> [path |-> to_string_lossy(root),
                   name |-> name,
                   default_branch |-> IF opened = None THEN None ELSE DefaultBranch(opened[1]),
                   last_commit_ts |-> IF opened = None THEN None ELSE LastCommitTs(opened[1]),
                   last_scan_ts |-> now,
                   readme_excerpt |-> ResultOk(read_readme_excerpt(files)),
                   origin_url |-> IF opened = None THEN None ELSE OriginUrl(opened[1])]]

(***************************************************************************)
(* SpecMeta: one call of read_repo_metadata per behaviour, over paths with *)
(* and without a last segment, canonicalize failing or resolving to        *)
(* another path, repositories that open or not, and README candidates      *)
(* absent, unreadable, short and long.                                     *)
(***************************************************************************)
\* n copies of s in a row
Repeat(s, n) == [i \in 1..(n * Len(s)) |-> s[((i - 1) % Len(s)) + 1]]

ReadmeChars == {"a", " ", "\n"}
ShortTexts == UNION {[1..n -> ReadmeChars] : n \in 0..MaxReadmeChars}
\* twelve lines with blank ones between them, a line longer than the
\* excerpt, lines that fill it, and a text with \r\n line ends
LongTexts ==
    { Repeat(<<"a", "\n", " ", "\n">>, ExcerptLines + 2),
      Repeat(<<"a", "b">>, ExcerptChars),
      Repeat(Repeat(<<"a">>, ExcerptChars \div ExcerptLines) \o <<"\n">>, ExcerptLines + 1),
      <<"a", "\r", "\n", "\r", "\n", " ", "b", "\r", "\n">> }

Readme_a == TextFile(<<"a">>)
Readme_b == TextFile(<<"b", "\n", "c">>)
NoReadme == [i \in 1..Len(candidates) |-> Missing]

ReadmeMixes == [1..Len(candidates) -> {Missing, Unreadable, Readme_a, Readme_b}]
ReadmeTexts == {[NoReadme EXCEPT ![1] = TextFile(s)] : s \in ShortTexts \cup LongTexts}

MetaRoots  == {<<>>, <<N_r>>, <<N_r, N_a>>, <<N_r, DotDot>>}
MetaCanons == {None, Some(<<>>), Some(<<N_r>>), Some(<<N_r, N_b>>)}
MetaOpened ==
    {None} \cup
    {Some(GitRepo(o, rs, h)) :
        o \in {None, Some(None), Some(Some(<<"u">>))},
        rs \in {<<>>, <<None, Some(<<"v">>), Some(<<"w">>)>>},
        h \in {None, Some(HeadRef(TRUE, Some(<<"m">>), Some(2))),
               Some(HeadRef(FALSE, Some(N_r), Some(1))),
               Some(HeadRef(TRUE, Some(<<"m">>), None))}}

MetaStart(now) == [pc |-> "meta", now |-> now]

InitMeta ==
    /\ EmptyStore
    /\ ret = Ok(0) /\ call = NoCall
    /\ pg = PgIdle /\ tx = TxIdle /\ rd = RdNone
    /\ built = BuiltIdle /\ job = JobIdle /\ peer = PeerIdle
    /\ \E now \in {1, 2} : walk = MetaStart(now)
    /\ \/ /\ fs \in [root : {<<N_r, N_a>>}, canon : {None}, readme : ReadmeMixes \cup ReadmeTexts]
          /\ git = None
       \/ /\ fs \in [root : MetaRoots, canon : MetaCanons,
                     readme : {NoReadme, [NoReadme EXCEPT ![2] = Unreadable, ![3] = Readme_a]}]
          /\ git \in MetaOpened

ReadRepoMetadata ==
    /\ walk.pc = "meta"
    /\ walk' = [pc |-> "read", now |-> walk.now,
                out |-> read_repo_metadata(fs.root, fs.canon, git, fs.readme, walk.now)]
    /\ Returns("read_repo_metadata", "ok", Ok(0))
    /\ UNCHANGED <<storeVars, pg, tx, rd, fs, git, built, job, peer>>

NextMeta == ReadRepoMetadata

SpecMeta == InitMeta /\ [][NextMeta]_vars

(***************************************************************************)
(* SpecScanPrune: scan_one_root over a store that an earlier scan filled:  *)
(* the walk of discover_git_repos entry by entry, then the loop that reads *)
(* the metadata of every repository found and upserts it, then             *)
(* prune_under_root with the paths upserted.                               *)
(***************************************************************************)
\* what earlier scans of the root may have indexed
EarlierFound ==
    { {}, {<<N_r>>}, {<<N_r, N_a>>}, {<<N_r, N_a, N_b>>}, {<<N_r, N_b, N_v, N_a>>},
      {<<N_r>>, <<N_r, N_a>>}, {<<N_r, N_a>>, <<N_r, N_b>>} }
RescanDepths  == {None, Some(0), Some(2)}
RescanIgnores == {{}, {N_a}}

\* the metadata of a repository found by the walk: the root was
\* canonicalized and the walk follows no link, so canonicalize returns the
\* path itself
MetaOfFound(p, now) == read_repo_metadata(p, Some(p), None, NoReadme, now).meta

\* for repo_root in repos { meta = read_repo_metadata; keep.insert; upsert_repo }
RECURSIVE UpsertEach(_, _, _)
UpsertEach(rs, seq, found) ==
    IF found = <<>> THEN [repos |-> rs, seq |-> seq]
    ELSE LET meta == MetaOfFound(Head(found), 1)
         IN  IF \E r \in rs : r.path = meta.path
             THEN UpsertEach({IF r.path = meta.path THEN UpdatedRepoRow(r, meta) ELSE r : r \in rs},
                             seq, Tail(found))
             ELSE UpsertEach(rs \cup {NewRepoRow(seq + 1, meta)}, seq + 1, Tail(found))

\* the store after an earlier scan that found the repositories `found`,
\* each of which was tagged and had its commits indexed since
StoreAfterEarlierScan(found) ==
    LET was == UpsertEach({}, 0, Sorted(found))
    IN  /\ repos = was.repos
        /\ repos_seq = was.seq
        /\ tags = IF found = {} THEN {} ELSE {[id |-> 1, name |-> T_be]}
        /\ tags_seq = 1
        /\ repo_tags = {[repo_id |-> r.id, tag_id |-> 1] : r \in was.repos}
        /\ commit_branches = UNION {InputRows(r.id, IndexOld).branches : r \in was.repos}
        /\ commits = UNION {InputRows(r.id, IndexOld).commits : r \in was.repos}

InitScanPrune ==
    /\ \E found \in EarlierFound : StoreAfterEarlierScan(found)
    /\ ret = Ok(0) /\ call = NoCall
    /\ pg = PgIdle /\ tx = TxIdle /\ rd = RdNone
    /\ git = GitNone /\ built = BuiltIdle /\ job = JobIdle /\ peer = PeerIdle
    /\ fs \in {t \in Trees : t.others = {}}
    /\ \E d \in RescanDepths, ig \in RescanIgnores : walk = WalkStart(ScanRoot, d, ig)

\* the loop over the repositories found
ScanUpsertEach ==
    /\ walk.pc = "done"
    /\ LET now == UpsertEach(repos, repos_seq, walk.out)
       IN  /\ now.seq <= MaxRepoId
           /\ repos' = now.repos
           /\ repos_seq' = now.seq
    /\ walk' = [walk EXCEPT !.pc = "upserted"]
    /\ Returns("upsert_repo", "each", Ok(Len(walk.out)))
    /\ UNCHANGED <<tags, tags_seq, repo_tags, commit_branches, commits, pg, tx, rd,
                   fs, git, built, job, peer>>

\* keep holds meta.path of every repository found
KeepOf(found) == {MetaOfFound(found[i], 1).path : i \in 1..Len(found)}

\* if prune { db.prune_under_root(&root.to_string_lossy(), &keep)? }
ScanPruneUnderRoot ==
    /\ walk.pc = "upserted"
    /\ prune_under_root(to_string_lossy(walk.root), KeepOf(walk.out))

\* else { 0 }
ScanWithoutPrune ==
    /\ walk.pc = "upserted"
    /\ Returns("scan_one_root", "no_prune", Ok(Len(walk.out)))
    /\ UNCHANGED <<storeVars, nonStoreVars>>

NextScanPrune ==
    \/ WalkRoot
    \/ WalkEntry
    \/ WalkReturn
    \/ ScanUpsertEach
    \/ ScanPruneUnderRoot
    \/ ScanWithoutPrune

SpecScanPrune == InitScanPrune /\ [][NextScanPrune]_vars

(***************************************************************************)
(* The commit index builder (src/src/commits.rs).  git[p] is what lies at  *)
(* the path p: nothing, something that is no repository, or a repository   *)
(* with its local and remote branches in the order Repository::branches    *)
(* iterates them and its commit objects.                                   *)
(***************************************************************************)
MaxBranchesLimit == 3     \* largest branches_limit a build is given
MaxCommitsPerBranch == 3  \* largest commits_per_branch a build is given

N_HEAD == <<"H", "E", "A", "D">>
SlashHEAD == <<"/">> \o N_HEAD

\* a reference under refs/heads (h) or refs/remotes (r)
Branch(kind, name, target) ==
    [kind |-> kind, name |-> name,
     refname |-> Some((IF kind = "local" THEN <<"h", "/">> ELSE <<"r", "/">>) \o Coalesce(name, <<"?">>)),
     target |-> target]

B_m  == Branch("local", Some(<<"m">>), Some("c4"))
B_d  == Branch("local", Some(<<"d">>), Some("c3"))
B_o  == Branch("local", Some(<<"o">>), Some("c1"))
\* a local branch that is a symbolic reference: it has no target
B_s  == Branch("local", Some(<<"s">>), None)
B_xH == Branch("local", Some(<<"x">> \o SlashHEAD), Some("c2"))
\* a local branch whose target is not in the object database
B_z  == Branch("local", Some(<<"z">>), Some("c9"))
\* a local branch whose name is not UTF-8
B_n  == Branch("local", None, Some("c1"))
R_om == Branch("remote", Some(<<"o", "/", "m">>), Some("c2"))
R_oH == Branch("remote", Some(<<"o">> \o SlashHEAD), None)

LocalBranches == <<B_m, B_d, B_o, B_s, B_xH, B_z, B_n>>
RemoteBranches == <<R_om, R_oH>>

\* the commit graph: c4 merges c2 and c3, both children of c1
Parents == [c1 |-> {}, c2 |-> {"c1"}, c3 |-> {"c1"}, c4 |-> {"c2", "c3"}]
CommitTimes ==
    { [c1 |-> 1, c2 |-> 2, c3 |-> 3, c4 |-> 4],    \* every parent older than its child
      [c1 |-> 1, c2 |-> 2, c3 |-> 3, c4 |-> 2],    \* c3 is later than its child c4
      [c1 |-> 1, c2 |-> 1, c3 |-> 1, c4 |-> 1],    \* all of one second
      [c1 |-> -1, c2 |-> 0, c3 |-> 1, c4 |-> 2] }  \* c1 before the epoch, c2 at it

\* the sub-sequence of seq at the positions keep
RECURSIVE Pick(_, _)
Pick(seq, keep) ==
    IF seq = <<>> THEN <<>>
    ELSE LET rest == Pick(SubSeq(seq, 1, Len(seq) - 1), keep)
         IN  IF Len(seq) \in keep THEN Append(rest, seq[Len(seq)]) ELSE rest

GitRepos ==
    {[kind |-> "repo", locals |-> Pick(LocalBranches, kl), remotes |-> Pick(RemoteBranches, kr),
      times |-> tm] :
        kl \in SUBSET (1..Len(LocalBranches)), kr \in SUBSET (1..Len(RemoteBranches)),
        tm \in CommitTimes}
Absent == [kind |-> "absent"]
NotARepo == [kind |-> "not_repo"]

\* repo.find_commit(oid).ok().map(|c| c.time().seconds())
CommitTime(repo, oid) == IF oid \in DOMAIN repo.times THEN Some(repo.times[oid]) ELSE None

\* the tips the two loops over repo.branches push, in that order
RECURSIVE TipsOf(_, _)
TipsOf(repo, bs) ==
    IF bs = <<>> THEN <<>>
    ELSE LET b == Head(bs)
             rest == TipsOf(repo, Tail(bs))
         IN  IF b.name = None THEN rest
             ELSE IF b.kind = "remote" /\ (EndsWith(b.name[1], SlashHEAD) \/ b.name[1] = N_HEAD)
             THEN rest
             ELSE IF b.refname = None THEN rest
             ELSE <<[kind |-> b.kind, name |-> b.name[1], refname |-> b.refname[1],
                     tip_time |-> IF b.target = None THEN None ELSE CommitTime(repo, b.target[1]),
                     tip_oid |-> b.target]>> \o rest

\* tips.sort_by(|a, b| b.tip_time.unwrap_or(0).cmp(&a.tip_time.unwrap_or(0))):
\* a stable sort, tips of equal key keep their order
SortKey(t) == Coalesce(t.tip_time, 0)
PlaceOf(tips, i) ==
    1 + Cardinality({j \in 1..Len(tips) : SortKey(tips[j]) > SortKey(tips[i])})
      + Cardinality({j \in 1..(i - 1) : SortKey(tips[j]) = SortKey(tips[i])})
SortTipsOldestFirst(tips) ==
    [k \in 1..Len(tips) |-> tips[CHOOSE i \in 1..Len(tips) : PlaceOf(tips, i) = Len(tips) + 1 - k]]
SortTips(tips) ==
    [k \in 1..Len(tips) |-> tips[CHOOSE i \in 1..Len(tips) : PlaceOf(tips, i) = k]]

\* tips.truncate(branches_limit.max(1))
Truncate(seq, n) == SubSeq(seq, 1, Min(Len(seq), n))

SelectedTips(repo, branches_limit) ==
    Truncate(SortTips(TipsOf(repo, repo.locals \o repo.remotes)), Max(branches_limit, 1))

BranchOfTip(t) == CommitBranch(t.kind, t.name, t.refname, t.tip_time)

\* let branches = tips.iter().map(..).collect()
BranchesOfWalkedTips(tips) ==
    LET walked == Pick(tips, {k \in 1..Len(tips) : tips[k].tip_oid # None})
    IN  [k \in 1..Len(walked) |-> BranchOfTip(walked[k])]
BranchesOfTips(tips) == [k \in 1..Len(tips) |-> BranchOfTip(tips[k])]

\* the record pushed for the commit oid met on the walk from the tip t
RowOfCommitOneRef(repo, t, oid) ==
    [refname |-> <<"h">>, branch_kind |-> t.kind, branch_name |-> t.name,
     oid |-> oid, time |-> Some(repo.times[oid]), author |-> None, email |-> None,
     summary |-> Some(<<"f">>), message |-> None]
RowOfCommit(repo, t, oid) ==
    [refname |-> t.refname, branch_kind |-> t.kind, branch_name |-> t.name,
     oid |-> oid, time |-> Some(repo.times[oid]), author |-> None, email |-> None,
     summary |-> Some(<<"f">>), message |-> None]

\* Sort::TIME: the walk yields the latest commit of those it has reached
\* and not yet yielded; a parent is reached when its child is yielded
AnyFirst(repo, queue) == queue
LatestFirst(repo, queue) ==
    {oid \in queue : \A other \in queue : repo.times[other] <= repo.times[oid]}

BuildStart(repo_path, branches_limit, commits_per_branch) ==
    [pc |-> "start", repo_path |-> repo_path, branches_limit |-> branches_limit,
     commits_per_branch |-> commits_per_branch,
     tips |-> <<>>, branches |-> <<>>, commits |-> <<>>,
     t |-> 1, walking |-> FALSE, queue |-> {}, seen |-> {}, i |-> 0, result |-> "none"]

buildFrame == <<storeVars, pg, tx, rd, fs, walk, git, job, peer>>

BuildFails ==
    /\ built' = [built EXCEPT !.pc = "returned", !.result = "err", !.walking = FALSE]
    /\ Returns("build_commit_index_for_repo", "err", Err)

\* Repository::open, the two loops over the branches, the sort and the
\* truncation
BuildTips ==
    /\ built.pc = "start"
    /\ IF git[built.repo_path].kind # "repo"
       THEN BuildFails
       ELSE LET tips == SelectedTips(git[built.repo_path], built.branches_limit)
            IN  /\ built' = [built EXCEPT !.pc = "walk", !.tips = tips,
                                          !.branches = BranchesOfTips(tips)]
                /\ UNCHANGED <<ret, call>>
    /\ UNCHANGED buildFrame

\* for t in tips: the walk of the next tip is set up
BuildPush ==
    /\ built.pc = "walk" /\ ~ built.walking
    /\ built.t <= Len(built.tips)
    /\ LET t == built.tips[built.t]
       IN  IF t.tip_oid = None
           THEN /\ built' = [built EXCEPT !.t = @ + 1]
                /\ UNCHANGED <<ret, call>>
           ELSE IF t.tip_oid[1] \notin DOMAIN git[built.repo_path].times
           THEN BuildFails
           ELSE /\ built' = [built EXCEPT !.walking = TRUE, !.queue = {t.tip_oid[1]},
                                          !.seen = {t.tip_oid[1]}, !.i = 0]
                /\ UNCHANGED <<ret, call>>
    /\ UNCHANGED buildFrame

\* for (i, oid) in walk.enumerate(): one more commit, or the end of the walk
BuildCommit ==
    /\ built.pc = "walk" /\ built.walking
    /\ LET repo == git[built.repo_path]
           t == built.tips[built.t]
       IN  IF built.queue = {} \/ built.i >= Max(built.commits_per_branch, 1)
           THEN built' = [built EXCEPT !.walking = FALSE, !.t = @ + 1, !.queue = {}, !.seen = {}]
           ELSE \E oid \in LatestFirst(repo, built.queue) :
                   built' = [built EXCEPT
                               !.commits = Append(@, RowOfCommit(repo, t, oid)),
                               !.queue = (@ \ {oid}) \cup (Parents[oid] \ built.seen),
                               !.seen = @ \cup Parents[oid],
                               !.i = @ + 1]
    /\ UNCHANGED <<ret, call>>
    /\ UNCHANGED buildFrame

\* Ok((branches, commits))
BuildReturn ==
    /\ built.pc = "walk" /\ ~ built.walking
    /\ built.t > Len(built.tips)
    /\ built' = [built EXCEPT !.pc = "returned", !.result = "ok"]
    /\ Returns("build_commit_index_for_repo", "ok", Ok(0))
    /\ UNCHANGED buildFrame

BuildLimits == 0..MaxBranchesLimit
BuildCaps == 0..MaxCommitsPerBranch

InitBuild ==
    /\ EmptyStore
    /\ ret = Ok(0) /\ call = NoCall
    /\ pg = PgIdle /\ tx = TxIdle /\ rd = RdNone
    /\ fs = NoTree /\ walk = WalkIdle /\ job = JobIdle /\ peer = PeerIdle
    /\ \E repo \in GitRepos \cup {NotARepo} : git = [p \in {P_ax} |-> repo]
    /\ \E bl \in BuildLimits, cpb \in BuildCaps : built = BuildStart(P_ax, bl, cpb)

NextBuild ==
    \/ BuildTips
    \/ BuildPush
    \/ BuildCommit
    \/ BuildReturn

SpecBuild == InitBuild /\ [][NextBuild]_vars

(***************************************************************************)
(* The commit-index rebuild loop (src/src/main.rs Command::CommitIndex,    *)
(* src/src/web.rs api_commit_index_rebuild): for each target, skip it when *)
(* its path does not exist, else build its index and replace the stored    *)
(* one; the first error ends the loop and is returned.                     *)
(***************************************************************************)
RepoTwoBranches ==
    [kind |-> "repo", locals |-> <<B_m, B_d>>, remotes |-> <<R_om>>,
     times |-> [c1 |-> 1, c2 |-> 2, c3 |-> 3, c4 |-> 4]]
RepoMissingTip ==
    [kind |-> "repo", locals |-> <<B_z>>, remotes |-> <<>>,
     times |-> [c1 |-> 1, c2 |-> 2, c3 |-> 3, c4 |-> 4]]
RepoNoBranch ==
    [kind |-> "repo", locals |-> <<>>, remotes |-> <<>>,
     times |-> [c1 |-> 1, c2 |-> 2, c3 |-> 3, c4 |-> 4]]

RebuildPaths == {P_ax, P_ay, P_bz}
Disks == {Absent, NotARepo, RepoTwoBranches, RepoMissingTip, RepoNoBranch}
RebuildLimits == {<<1, 1>>, <<2, 2>>}

\* SELECT path FROM repos ORDER BY name ASC
list_repo_paths ==
    {[k \in 1..Len(f) |-> f[k].path] :
        f \in Orders(repos, {x \in repos \X repos : RowNameAsc(x[1], x[2])})}

\* Path::new(&p).exists()
ExistsAlways(p) == TRUE
Exists(p) == git[p].kind # "absent"

\* two indexed repositories, each with the stored index IndexOld
StoreForRebuild ==
    /\ repos = {NewRepoRow(1, RepoMeta(P_ax, Meta3)), NewRepoRow(2, RepoMeta(P_ay, Meta4))}
    /\ repos_seq = 2
    /\ tags = {} /\ tags_seq = 0 /\ repo_tags = {}
    /\ commit_branches = InputRows(1, IndexOld).branches \cup InputRows(2, IndexOld).branches
    /\ commits = InputRows(1, IndexOld).commits \cup InputRows(2, IndexOld).commits

JobStart(targets, branches_limit, commits_per_branch) ==
    [pc |-> "loop", targets |-> targets, k |-> 1, repos_indexed |-> 0,
     branches_limit |-> branches_limit, commits_per_branch |-> commits_per_branch]

InitRebuild ==
    /\ StoreForRebuild
    /\ ret = Ok(0) /\ call = NoCall
    /\ pg = PgIdle /\ tx = TxIdle /\ rd = RdNone
    /\ fs = NoTree /\ walk = WalkIdle /\ built = BuiltIdle /\ peer = PeerIdle
    /\ git \in [RebuildPaths -> Disks]
    /\ \E targets \in list_repo_paths \cup {<<p>> : p \in RebuildPaths}, lim \in RebuildLimits :
          job = JobStart(targets, lim[1], lim[2])

\* for p in targets: the existence test, then the call of the build
JobTarget ==
    /\ job.pc = "loop"
    /\ IF job.k > Len(job.targets)
       THEN /\ job' = [job EXCEPT !.pc = "done"]
            /\ UNCHANGED built
       ELSE IF ~ Exists(job.targets[job.k])
       THEN /\ job' = [job EXCEPT !.k = @ + 1]
            /\ UNCHANGED built
       ELSE /\ job' = [job EXCEPT !.pc = "build"]
            /\ built' = BuildStart(job.targets[job.k], job.branches_limit, job.commits_per_branch)
    /\ UNCHANGED <<storeVars, ret, call, pg, tx, rd, fs, walk, git, peer>>

\* build_commit_index_for_repo(..)? returned an error: the loop returns it
JobBuildFailed ==
    /\ job.pc = "build" /\ built.pc = "returned"
    /\ call.op = "build_commit_index_for_repo"
    /\ built.result = "err"
    /\ job' = [job EXCEPT !.pc = "failed"]
    /\ UNCHANGED <<storeVars, ret, call, pg, tx, rd, fs, walk, git, built, peer>>

\* db.replace_commit_index_for_repo(&p, &branches, &commits)
JobReplace ==
    /\ job.pc = "build" /\ built.pc = "returned"
    /\ call.op = "build_commit_index_for_repo"
    /\ built.result = "ok"
    /\ replace_commit_index_for_repo(job.targets[job.k], built.branches, built.commits)

\* the ? on the replacement, then repos_indexed += 1
JobReplaced ==
    /\ job.pc = "build" /\ built.pc = "returned"
    /\ call.op = "replace_commit_index_for_repo"
    /\ IF ret.ok
       THEN job' = [job EXCEPT !.pc = "loop", !.k = @ + 1, !.repos_indexed = @ + 1]
       ELSE job' = [job EXCEPT !.pc = "failed"]
    /\ UNCHANGED <<storeVars, ret, call, pg, tx, rd, fs, walk, git, built, peer>>

NextRebuild ==
    \/ JobTarget
    \/ JobBuildFailed
    \/ JobReplace
    \/ JobReplaced
    \/ BuildTips
    \/ BuildPush
    \/ BuildCommit
    \/ BuildReturn

SpecRebuild == InitRebuild /\ [][NextRebuild]_vars

(***************************************************************************)
(* Properties of the store operations                                      *)
(***************************************************************************)
\* the paths of the repositories that carry the tag named `tag`
Carriers(rs, ts, rts, tag) ==
    {r.path : r \in {x \in rs : \E t \in ts, rt \in rts :
                        t.name = tag /\ rt.tag_id = t.id /\ rt.repo_id = x.id}}

\* the association count list_tags_with_count reports for `tag`; 0 when the
\* tag is not listed
CountOf(ts, rts, tag) ==
    LET rows == {row \in TagCountRows(ts, rts) : row.name = tag}
    IN  IF rows = {} THEN 0 ELSE (CHOOSE row \in rows : TRUE).c

\* C2: after any sequence of upsert_repo calls there is at most one repos
\* row per path, and an upsert of a path leaves exactly one row for it whose
\* name, default_branch, last_commit_ts, last_scan_ts, readme_excerpt and
\* origin_url are those of that call.
C2_UpsertOneRowLatestMeta ==
    [][\A p \in Paths, m \in Metas :
        upsert_repo(RepoMeta(p, m)) =>
            /\ \A q \in Paths : Cardinality({r \in repos' : r.path = q}) <= 1
            /\ Cardinality({r \in repos' : r.path = p}) = 1
            /\ \A r \in repos' : r.path = p => \A f \in MetaFields : r[f] = m[f]]_vars

\* a second upsert of an indexed path has rewritten its metadata
C2_Witness ==
    /\ call = [op |-> "upsert_repo", branch |-> "update"]
    /\ \E r \in repos : r.last_scan_ts = Meta2.last_scan_ts /\ r.origin_url = Meta2.origin_url

\* C3: remove_tag_from_repo(path, tag) on an indexed path that carries the
\* tag: when it was the tag's last association the tag row is deleted,
\* otherwise the tag row stays and the count list_tags_with_count reports
\* for it drops by exactly one; the associations of other tags and of other
\* repositories are unchanged.
C3_RemoveTagCleansUp ==
    [][\A p \in Paths, t \in TagNames :
        (remove_tag_from_repo(p, t) /\ p \in Carriers(repos, tags, repo_tags, t)) =>
            LET n == CountOf(tags, repo_tags, t)
            IN  /\ n = 1 => ~ \E x \in tags' : x.name = t
                /\ n > 1 => /\ \E x \in tags' : x.name = t
                            /\ CountOf(tags', repo_tags', t) = n - 1
                /\ Carriers(repos', tags', repo_tags', t) = Carriers(repos, tags, repo_tags, t) \ {p}
                /\ \A u \in TagNames \ {t} :
                      /\ Carriers(repos', tags', repo_tags', u) = Carriers(repos, tags, repo_tags, u)
                      /\ {x \in tags' : x.name = u} = {x \in tags : x.name = u}]_vars

\* a tag was removed from one of the two repositories that carried it
C3_Witness ==
    /\ call = [op |-> "remove_tag_from_repo", branch |-> "removed"]
    /\ \E t \in TagNames : CountOf(tags, repo_tags, t) = 1 /\ Cardinality(repos) = 2
    /\ Cardinality(repo_tags) < Cardinality(repos) * Cardinality(tags)

\* C4: after every completed store operation every tags row is associated
\* with at least one repository.
C4_NoOrphanTag ==
    \A t \in tags : \E rt \in repo_tags : rt.tag_id = t.id

\* a removal or a prune took the last association of a tag and the tag row
\* went with it
C4_Witness ==
    /\ \/ call = [op |-> "remove_tag_from_repo", branch |-> "removed"]
       \/ call = [op |-> "prune_under_root", branch |-> "cascade"]
    /\ tags_seq > Cardinality(tags)

\* C5: every repo_tags, commit_branches and commits row references an
\* existing repos row.
C5_ChildRowsHaveRepo ==
    \A x \in repo_tags \cup commit_branches \cup commits :
        \E r \in repos : r.id = x.repo_id

\* a prune deleted a repository that had child rows while another
\* repository keeps its own
C5_Witness ==
    /\ call.op \in {"prune_missing_paths", "prune_under_root"}
    /\ call.branch = "cascade"
    /\ repos # {} /\ repo_tags # {} /\ commits # {} /\ commit_branches # {}

\* C14: add_tag_to_repo on an indexed path succeeds whether or not the
\* repository carries the tag already, leaves exactly one tag row of that
\* name and exactly one association, changes nothing when the repository
\* carried the tag, and list_repo_tags then returns the tag once, in
\* ascending name order with the repository's other tags.
C14_AddTagIdempotent ==
    [][\A p \in Paths, t \in TagNames :
        (add_tag_to_repo(p, t) /\ repo_id_by_path(repos, p) # None) =>
            /\ ret'.ok
            /\ Cardinality({x \in tags' : x.name = t}) = 1
            /\ Cardinality({rt \in repo_tags' :
                    /\ Some(rt.repo_id) = repo_id_by_path(repos, p)
                    /\ \E x \in tags' : x.id = rt.tag_id /\ x.name = t}) = 1
            /\ p \in Carriers(repos, tags, repo_tags, t) =>
                    (tags' = tags /\ repo_tags' = repo_tags /\ tags_seq' = tags_seq)
            /\ \A listed \in list_repo_tags(p)' :
                    /\ listed # None
                    /\ Cardinality({i \in 1..Len(listed[1]) : listed[1][i] = t}) = 1
                    /\ \A i, j \in 1..Len(listed[1]) :
                            i < j => StrLess(listed[1][i], listed[1][j])]_vars

\* a tag was added a second time to a repository that carries two tags
C14_Witness ==
    /\ call = [op |-> "add_tag_to_repo", branch |-> "again"]
    /\ ret = Ok(0)
    /\ \E r \in repos : Cardinality({rt \in repo_tags : rt.repo_id = r.id}) = 2

\* C15: add_tag_to_repo and remove_tag_from_repo with a path that is not
\* indexed return an error and leave the store unchanged; a failed add
\* creates no tag row.
C15_TagOpsNeedIndexedPath ==
    [][\A p \in Paths, t \in TagNames :
        ((add_tag_to_repo(p, t) \/ remove_tag_from_repo(p, t))
            /\ repo_id_by_path(repos, p) = None) =>
            /\ ~ ret'.ok
            /\ tags' = tags /\ tags_seq' = tags_seq
            /\ UNCHANGED storeVars]_vars

\* an add failed for a path that is not indexed while another repository
\* is indexed and no tag exists
C15_Witness ==
    /\ call = [op |-> "add_tag_to_repo", branch |-> "not_indexed"]
    /\ ret = Err
    /\ Cardinality(repos) = 1 /\ tags = {} /\ tags_seq = 0

\* C16: prune_missing_paths deletes exactly the repos rows whose path does
\* not exist at call time, leaves every row whose path exists unchanged,
\* returns the number of rows deleted, and leaves no tag that was carried
\* only by deleted repositories.
C16_PruneMissingExact ==
    [][\A exists \in SUBSET Paths :
        prune_missing_paths(exists) =>
            /\ repos' = {r \in repos : r.path \in exists}
            /\ ret' = Ok(Cardinality({r \in repos : r.path \notin exists}))
            /\ \A t \in tags :
                  Carriers(repos, tags, repo_tags, t.name) \cap exists = {} => t \notin tags'
            /\ \A t \in tags :
                  Carriers(repos, tags, repo_tags, t.name) \cap exists # {} =>
                      /\ t \in tags'
                      /\ Carriers(repos', tags', repo_tags', t.name)
                            = Carriers(repos, tags, repo_tags, t.name) \cap exists]_vars

\* of two tagged repositories one was missing: it went with the tag it
\* alone carried, the other kept its tag
C16_Witness ==
    /\ call = [op |-> "prune_missing_paths", branch |-> "cascade"]
    /\ ret = Ok(1)
    /\ Cardinality(repos) = 1 /\ repos_seq = 2
    /\ Cardinality(tags) = 1 /\ tags_seq = 2 /\ Cardinality(repo_tags) = 1

\* C17: record_access(path) on a path that is not indexed succeeds and
\* changes nothing; on an indexed path it changes that row's last_access_ts
\* and no other column, row or table.
C17_RecordAccessFrame ==
    [][\A p \in Paths, now \in Times :
        record_access(p, now) =>
            /\ ret'.ok
            /\ repo_id_by_path(repos, p) = None => UNCHANGED storeVars
            /\ \A r \in repos : r.path # p => r \in repos'
            /\ \A r \in repos : r.path = p =>
                  \E x \in repos' :
                      /\ x.last_access_ts = Some(now)
                      /\ \A f \in (DOMAIN r) \ {"last_access_ts"} : x[f] = r[f]
            /\ Cardinality(repos') = Cardinality(repos)
            /\ UNCHANGED <<repos_seq, tags, tags_seq, repo_tags, commit_branches, commits>>]_vars

\* of two indexed repositories one was accessed, the other never
C17_Witness ==
    /\ call.op = "record_access"
    /\ ret = Ok(0)
    /\ \E r, x \in repos : r.last_access_ts = Some(1) /\ x.last_access_ts = None
    /\ repo_tags # {} /\ commits # {}

\* C35: upsert_repo on an indexed path keeps the row's id and
\* last_access_ts, changes no other repos row, and leaves tags, tag
\* associations, branch tips and commit records unchanged.
C35_UpsertKeepsIdAccessTagsIndex ==
    [][\A p \in Paths, m \in Metas :
        (upsert_repo(RepoMeta(p, m)) /\ repo_id_by_path(repos, p) # None) =>
            /\ \A r \in repos : r.path # p => r \in repos'
            /\ \A r \in repos : r.path = p =>
                  \E x \in repos' :
                      /\ x.path = p /\ x.id = r.id /\ x.last_access_ts = r.last_access_ts
                      /\ \A f \in MetaFields : x[f] = m[f]
            /\ Cardinality(repos') = Cardinality(repos)
            /\ UNCHANGED <<repos_seq, tags, tags_seq, repo_tags, commit_branches, commits>>]_vars

\* a repository that was opened, tagged and indexed was scanned again with
\* other metadata
C35_Witness ==
    /\ call = [op |-> "upsert_repo", branch |-> "update"]
    /\ \E r \in repos :
          /\ r.last_access_ts = Some(1)
          /\ \E rt \in repo_tags : rt.repo_id = r.id
          /\ \E c \in commits : c.repo_id = r.id

\* C21: list_tags_with_count returns no tag with count zero, and the count
\* of every returned tag is the number of repositories associated with the
\* tag in the current store.
C21_TagCountsAreAssociations ==
    \A row \in TagCountRows(tags, repo_tags) :
        /\ row.c > 0
        /\ row.c = Cardinality(Carriers(repos, tags, repo_tags, row.name))

\* two tags are listed, one carried by two repositories and one by one
C21_Witness ==
    \E x, y \in TagCountRows(tags, repo_tags) : x.c = 2 /\ y.c = 1

\* root with the path separator appended unless it already ends with it
LiteralPrefix(root) ==
    IF EndsWith(root, MAIN_SEPARATOR) THEN root ELSE root \o MAIN_SEPARATOR

\* C6: prune_under_root(root, keep) deletes every repos row whose path
\* starts with root followed by the path separator and is not in keep,
\* keeps every row whose path is in keep, and returns the number of rows it
\* deleted.
C6_PruneUnderRootDeletes ==
    [][\A root \in PruneRoots, keep \in PruneKeeps :
        prune_under_root(root, keep) =>
            /\ \A r \in repos :
                  (StartsWith(r.path, LiteralPrefix(root)) /\ r.path \notin keep)
                      => ~ \E x \in repos' : x.path = r.path
            /\ \A r \in repos : r.path \in keep => r \in repos'
            /\ repos' \subseteq repos
            /\ ret' = Ok(Cardinality(repos \ repos'))]_vars

\* /a/x, /a/y and /b/z were indexed; pruning under /a with keep = {/a/x}
\* deleted /a/y alone
C6_Witness ==
    /\ call.op = "prune_under_root"
    /\ ret = Ok(1)
    /\ {r.path : r \in repos} = {P_ax, P_bz}
    /\ repos_seq = 3

\* C7: prune_under_root(root, keep) leaves untouched every repos row whose
\* path does not have root plus the path separator as an exact,
\* case-sensitive, literal prefix.
C7_PruneUnderRootFrame ==
    [][\A root \in PruneRoots, keep \in PruneKeeps :
        prune_under_root(root, keep) =>
            \A r \in repos : ~ StartsWith(r.path, LiteralPrefix(root)) => r \in repos']_vars

\* C1: while replace_commit_index_for_repo runs for a repository, a reader
\* on another connection finds either the complete old index or the
\* complete new index of that repository: never rows of both, and never the
\* new branch tips without the new commits.
C1_ReaderSeesOldOrNew ==
    (rd.seen /\ rd.during) =>
        \/ IndexOf(rd.cb, rd.cm, rd.id) = rd.old
        \/ IndexOf(rd.cb, rd.cm, rd.id) = rd.new

\* the reader ran while W had deleted the old rows and inserted the new
\* branch tips but not yet the new commits
C1_Witness ==
    /\ rd.seen /\ rd.during
    /\ tx.pc = "insert" /\ tx.ib > Len(tx.input.branches) /\ tx.ic = 1
    /\ rd.id = tx.id
    /\ rd.old = tx.old
    /\ rd.old.commits # {} /\ rd.new.commits # {} /\ rd.old # rd.new
    /\ IndexOf(tx.cb, tx.cm, tx.id) # rd.old
    /\ IndexOf(rd.cb, rd.cm, rd.id) = rd.old

(***************************************************************************)
(* Properties of concurrent replacements of the commit index (SpecRace)    *)
(***************************************************************************)
ReplaceOp == "replace_commit_index_for_repo"
WritePhase == {"del_commits", "insert"}

\* the step in which a call of W or of P returns an error
WFails == tx.pc \in {"begin", "insert"} /\ tx' = TxIdle
PFails == peer.pc \in {"begin", "insert"} /\ peer' = PeerIdle
NotIndexedReturn ==
    /\ call' = [op |-> ReplaceOp, branch |-> "not_indexed"]
    /\ tx' = tx /\ peer' = peer

\* C36: a call of replace_commit_index_for_repo that returns an error, for a
\* path that is not indexed, after a repeated ref name or (ref, oid) pair
\* failed behind the deletes, or on SQLITE_BUSY, leaves the stored tips and
\* commits of every repository as they were.
C36_FailedReplaceChangesNothing ==
    [][(WFails \/ PFails \/ NotIndexedReturn)
         => /\ ret' = Err
            /\ commit_branches' = commit_branches
            /\ commits' = commits]_vars

\* a call failed behind its deletes while tips and commits were stored
C36_Witness ==
    /\ call = [op |-> ReplaceOp, branch |-> "rolled_back"]
    /\ ret = Err
    /\ tx = TxIdle /\ peer = PeerIdle
    /\ commit_branches # {} /\ commits # {}

\* the inputs whose rows fit the UNIQUE constraints
Storable(ix) ==
    /\ \A i, j \in 1..Len(ix.branches) : ix.branches[i].refname = ix.branches[j].refname => i = j
    /\ \A i, j \in 1..Len(ix.commits) :
          (ix.commits[i].refname = ix.commits[j].refname /\ ix.commits[i].oid = ix.commits[j].oid)
              => i = j

\* C33: two calls of replace_commit_index_for_repo that run at the same time
\* never write at the same time; the commit of either stores exactly its
\* input for its repository and leaves every other row alone, a call that
\* fails stores nothing, and so the index of a repository is at all times
\* the input of one call that succeeded, or empty.
C33_ConcurrentReplacesSerialized ==
    /\ [](~ (tx.pc \in WritePhase /\ peer.pc \in WritePhase))
    /\ [](\A r \in repos :
            \/ IndexOf(commit_branches, commits, r.id) = NoIndex
            \/ \E ix \in ConcIndexes \cup PeerIndexes :
                   /\ Storable(ix)
                   /\ IndexOf(commit_branches, commits, r.id) = InputRows(r.id, ix))
    /\ [][/\ ReplaceCommit =>
               /\ IndexOf(commit_branches', commits', tx.id) = InputRows(tx.id, tx.input)
               /\ \A x \in commit_branches \cup commits : x.repo_id # tx.id =>
                      x \in commit_branches' \cup commits'
          /\ PeerCommit =>
               /\ IndexOf(commit_branches', commits', peer.id) = InputRows(peer.id, peer.input)
               /\ \A x \in commit_branches \cup commits : x.repo_id # peer.id =>
                      x \in commit_branches' \cup commits'
          /\ (WFails \/ PFails) => (commit_branches' = commit_branches /\ commits' = commits)]_vars

\* P was called for the repository W was replacing the index of, W has
\* committed IndexNew since and P has committed its own input over it
C33_Witness ==
    /\ peer.pc = "committed"
    /\ peer.met = [id |-> peer.id, input |-> IndexNew]
    /\ tx.pc \in {"committed", "idle"}
    /\ IndexOf(commit_branches, commits, peer.id) = InputRows(peer.id, IndexDev)

\* C37: add_tag_to_repo(A, t) for an indexed A returns success, whatever
\* statements of remove_tag_from_repo(B, t) or of a prune other connections
\* run in between, and no repo_tags row references a tag that is gone.
C37_AddSucceedsBesideRemoveOrPrune ==
    /\ (call.op = "add_tag_to_repo" /\ call.branch # "not_indexed") => ret = Ok(0)
    /\ \A rt \in repo_tags : \E t \in tags : t.id = rt.tag_id

\* C40: when a prune deletes the repository of a running
\* replace_commit_index_for_repo after the call has looked its id up, no
\* commit_branches or commits row is ever stored whose repos row is gone.
C40_NoRowsOfPrunedRepo ==
    \A x \in commit_branches \cup commits : \E r \in repos : r.id = x.repo_id

\* W has committed for a repository that was pruned after the lookup
C40_Witness ==
    /\ tx.pc = "committed"
    /\ ~ \E r \in repos : r.id = tx.id
    /\ \E r \in repos : r.path = tx.path

(***************************************************************************)
(* Properties of the paged reads                                           *)
(***************************************************************************)
\* the results the paged read of query q can return for one page
PagedRead(q, page, per_page) ==
    CASE q.kind = "search" ->
            search_repos_with_tags_paged_filtered(q.query, q.in_a, q.in_b, q.in_c, q.in_d, page, per_page)
      [] q.kind = "list" -> list_repos_with_tags_paged(q.tag, q.recent, page, per_page)
      [] q.kind = "commits" ->
            search_commits_paged(q.query, q.branch, q.in_a, q.in_b, page, per_page)
      [] OTHER -> {}

\* the names of the tags of repository r
TagsOf(r) == {t.name : t \in {x \in tags : \E rt \in repo_tags : rt.repo_id = r.id /\ rt.tag_id = x.id}}

\* the rows that satisfy the filter of query q, told row by row
MatchingRows(q) ==
    LET none == ~ (q.in_a \/ q.in_b \/ q.in_c \/ q.in_d)
        pat  == Wrap(q.query)
    IN  CASE q.kind = "search" ->
                {r \in repos :
                    \/ (none \/ q.in_a) /\ Like(pat, r.name)
                    \/ (none \/ q.in_b) /\ Like(pat, r.path)
                    \/ (none \/ q.in_c) /\ Like(pat, Coalesce(r.readme_excerpt, <<>>))
                    \/ (none \/ q.in_d) /\ IF TagsOf(r) = {} THEN Like(pat, <<>>)
                                           ELSE \E t \in TagsOf(r) : Like(pat, t)}
          [] q.kind = "list" ->
                {r \in repos : q.tag = None \/ q.tag[1] \in TagsOf(r)}
          [] q.kind = "commits" ->
                {c \in commits :
                    /\ \/ (none \/ q.in_a) /\ c.summary # None /\ Like(pat, c.summary[1])
                       \/ (none \/ q.in_b) /\ Like(pat, Coalesce(c.message, <<>>))
                    /\ \/ q.branch = None
                       \/ Like(Wrap(q.branch[1]), c.branch_name)
                       \/ Like(Wrap(q.branch[1]), c.refname)}
          [] OTHER -> {}

\* the pages read so far, put together, are what one read of the whole
\* result returns, and every page reported the same total
PagesAreWholeResult ==
    /\ \E whole \in PagedRead(pg.q, 1, PerPageMax) : pg.acc = whole.items
    /\ \A i \in 1..Len(pg.totals) : pg.totals[i] = pg.totals[1]

\* C8: for a fixed store, repository query and perPage, the items of pages
\* 1, 2, 3, ... put together are the full ordered result set, no repository
\* twice and none missing, also when matching repositories share a name or
\* a last-access time, and total is the same on every page.
C8_RepoPagesPartition ==
    (pg.state = "done" /\ pg.q.kind \in {"search", "list"}) => PagesAreWholeResult

\* C9: for a fixed store, query, branch filter, flags and perPage, the items
\* of all pages of search_commits_paged are every matching commit row
\* exactly once, also when matching rows share a commit time, and total is
\* the same on every page.
C9_CommitPagesPartition ==
    (pg.state = "done" /\ pg.q.kind = "commits") => PagesAreWholeResult

\* C10: in every paged read the returned total is the number of distinct
\* rows that satisfy the filter that selects the items, which is the number
\* of items obtained over all pages; a repository with several matching
\* tags counts once.
C10_TotalCountsMatchingRows ==
    /\ \A i \in 1..Len(pg.totals) : pg.totals[i] = Cardinality(MatchingRows(pg.q))
    /\ pg.state = "done" => Len(pg.acc) = Cardinality(MatchingRows(pg.q))

\* a search in tag names for "e" was read to the end: the first repository
\* matches through both of its tags, the second through its one tag
C10_Witness ==
    /\ pg.state = "done"
    /\ pg.q.kind = "search" /\ pg.q.query = <<"e">> /\ pg.q.in_d /\ ~ pg.q.in_a
    /\ Cardinality({jr \in JoinRows : Like(Wrap(pg.q.query), Coalesce(jr.t, <<>>))}) = 3
    /\ pg.totals = <<2, 2>>

(***************************************************************************)
(* Properties of single reads                                              *)
(***************************************************************************)
\* the caller holds the result of a paged read
HoldsPagedRead == pg.state = "read" /\ pg.q.kind \in {"search", "list", "commits"}

\* C11: paged reads never reject page or perPage: page 0 behaves exactly as
\* page 1, perPage 0 as perPage 1, a perPage above 200 as 200, and the
\* number of returned items never exceeds min(max(perPage, 1), 200).
C11_PagedReadsClamp ==
    HoldsPagedRead =>
        /\ call.branch # "panic"
        /\ Len(pg.acc) <= Min(Max(pg.q.per_page, 1), PerPageMax)
        /\ pg.page = 0 =>
              PagedRead(pg.q, 0, pg.q.per_page) = PagedRead(pg.q, 1, pg.q.per_page)
        /\ pg.q.per_page = 0 => PagedRead(pg.q, pg.page, 0) = PagedRead(pg.q, pg.page, 1)
        /\ pg.q.per_page > PerPageMax =>
              PagedRead(pg.q, pg.page, pg.q.per_page) = PagedRead(pg.q, pg.page, PerPageMax)

\* query q with every field flag set
AllFlags(q) == [q EXCEPT !.in_a = TRUE, !.in_b = TRUE, !.in_c = q.kind = "search",
                         !.in_d = q.kind = "search"]

\* C12: a repository search or a commit search whose field flags are all
\* false returns the total and the items of the same search with all flags
\* true.
C12_NoFlagsIsAllFlags ==
    (pg.state = "read" /\ pg.q.kind \in {"search", "commits"}
        /\ ~ (pg.q.in_a \/ pg.q.in_b \/ pg.q.in_c \/ pg.q.in_d)) =>
        /\ PagedRead(pg.q, pg.page, pg.q.per_page) = PagedRead(AllFlags(pg.q), pg.page, pg.q.per_page)
        /\ \E res \in PagedRead(AllFlags(pg.q), pg.page, pg.q.per_page) :
              res.items = pg.acc /\ <<res.total>> = pg.totals

\* a search for "e" without flags returned the two repositories that match
\* through their tags alone
C12_Witness ==
    /\ pg.state = "read" /\ pg.q.kind = "search" /\ pg.q.query = <<"e">>
    /\ ~ (pg.q.in_a \/ pg.q.in_b \/ pg.q.in_c \/ pg.q.in_d)
    /\ Len(pg.acc) = 2 /\ pg.totals = <<2>>
    /\ \A i \in 1..2 : ~ Like(Wrap(pg.q.query), pg.acc[i].repo.name)
                         /\ ~ Like(Wrap(pg.q.query), pg.acc[i].repo.path)

\* text s contains text q, letters compared without regard to ASCII case
Contains(s, q) ==
    \E i \in 0..(Len(s) - Len(q)) : \A k \in 1..Len(q) : Fold(s[i + k]) = Fold(q[k])

\* the query of q is a substring of an enabled field of repository r
InEnabledField(r, q) ==
    \/ q.in_a /\ Contains(r.name, q.query)
    \/ q.in_b /\ Contains(r.path, q.query)
    \/ q.in_c /\ Contains(Coalesce(r.readme_excerpt, <<>>), q.query)
    \/ q.in_d /\ \E t \in TagsOf(r) : Contains(t, q.query)

\* C13: with at least one field flag set,
\* search_repos_with_tags_paged_filtered returns a repository if and only
\* if the query is a substring of at least one enabled field (name, path,
\* README excerpt, name of one of its tags); a repository that matches only
\* through a disabled field is not returned.
C13_SearchesEnabledFieldsOnly ==
    (pg.state = "read" /\ pg.q.kind = "search" /\ call.branch = "ok"
        /\ (pg.q.in_a \/ pg.q.in_b \/ pg.q.in_c \/ pg.q.in_d)) =>
        LET hits == {r \in repos : InEnabledField(r, pg.q)}
        IN  /\ \A i \in 1..Len(pg.acc) : pg.acc[i].repo \in hits
            /\ pg.totals = <<Cardinality(hits)>>
            /\ (pg.page <= 1 /\ pg.q.per_page > Cardinality(repos)) =>
                  {pg.acc[i].repo : i \in 1..Len(pg.acc)} = hits

\* C18: resolve_repo_path(input) returns none or the path of an indexed
\* repository: for an absolute input that path exactly when a row with that
\* exact path exists; otherwise, among the repositories whose name or path
\* contains the input, one that is first in ascending name order, or none
\* when no repository matches.
C18_ResolveRepoPath ==
    (pg.state = "read" /\ pg.q.kind = "resolve") =>
        LET input == pg.q.query
            found == pg.acc
            hits  == {r \in repos : Contains(r.name, input) \/ Contains(r.path, input)}
        IN  /\ found # None => \E r \in repos : r.path = found[1]
            /\ IsAbsolute(input) =>
                  found = IF \E r \in repos : r.path = input THEN Some(input) ELSE None
            /\ ~ IsAbsolute(input) =>
                  /\ found = None <=> hits = {}
                  /\ found # None =>
                        \E r \in hits : /\ r.path = found[1]
                                        /\ \A y \in hits : ~ StrLess(y.name, r.name)

\* the RepoRow values of a repository listing the caller holds
ListedRows ==
    IF pg.q.kind = "list" THEN [i \in 1..Len(pg.acc) |-> pg.acc[i].repo] ELSE pg.acc

\* C19: a repository listing with recent=true is ordered by last-access
\* time descending, every never-accessed repository after every accessed
\* one, ties broken by name ascending; with recent=false it is ordered by
\* name ascending.
C19_ListingOrder ==
    (pg.state = "read" /\ pg.q.kind \in {"list", "list_repos"}) =>
        \A i, j \in 1..Len(ListedRows) : i < j =>
            LET a == ListedRows[i]
                b == ListedRows[j]
            IN  IF pg.q.recent
                THEN /\ a.last_access_ts = None => b.last_access_ts = None
                     /\ (a.last_access_ts # None /\ b.last_access_ts # None) =>
                            a.last_access_ts[1] >= b.last_access_ts[1]
                     /\ a.last_access_ts = b.last_access_ts => ~ StrLess(b.name, a.name)
                ELSE ~ StrLess(b.name, a.name)

\* a recent-first listing of three repositories: two accessed at the same
\* time and named f and x, then one never accessed
C19_Witness ==
    /\ pg.state = "read" /\ pg.q.kind = "list" /\ pg.q.recent /\ pg.q.tag = None
    /\ Len(pg.acc) = 3
    /\ pg.acc[1].repo.last_access_ts = Some(1) /\ pg.acc[1].repo.name = <<"f">>
    /\ pg.acc[2].repo.last_access_ts = Some(1) /\ pg.acc[2].repo.name = <<"x">>
    /\ pg.acc[3].repo.last_access_ts = None

\* C20: search_commits_paged returns hits by commit time descending with
\* every commit that has no time after every commit that has one, and with
\* a branch filter it returns only commits whose branch name or ref name
\* contains the filter.
C20_CommitHitsOrderAndBranch ==
    (pg.state = "read" /\ pg.q.kind = "commits") =>
        /\ \A i, j \in 1..Len(pg.acc) : i < j =>
              /\ pg.acc[i].time = None => pg.acc[j].time = None
              /\ (pg.acc[i].time # None /\ pg.acc[j].time # None) =>
                    pg.acc[i].time[1] >= pg.acc[j].time[1]
        /\ pg.q.branch # None =>
              \A i \in 1..Len(pg.acc) :
                  \/ Contains(pg.acc[i].branch_name, pg.q.branch[1])
                  \/ Contains(pg.acc[i].refname, pg.q.branch[1])

\* C38: every item returned by search_repos_with_tags_paged_filtered carries
\* the tags list_repo_tags returns for the item's repository, also when the
\* repository matched through one of its tags only.
C38_SearchItemsCarryAllTags ==
    (pg.state = "read" /\ pg.q.kind = "search" /\ ret.ok) =>
        \A i \in 1..Len(pg.acc) :
            \A listed \in list_repo_tags(pg.acc[i].repo.path) :
                listed # None /\ Range(listed[1]) = pg.acc[i].tags

(***************************************************************************)
(* Properties of the directory scanner                                     *)
(***************************************************************************)
Depth(p) == Len(p) - Len(walk.root)
WithinDepth(p) == walk.max_depth = None \/ Depth(p) <= walk.max_depth[1]

\* the directories at or below the scan root that p is or lies beneath
Above(p) == {q \in fs.dirs : IsPrefix(walk.root, q) /\ IsPrefix(q, p)}

\* the tree /r/a/.git, /r/b/.git, /r/b/v/a/.git
ScenarioTree ==
    [dirs |-> TreeDirs \ {<<N_r, DotGit>>, <<N_r, N_a, N_b>>, <<N_r, N_a, N_b, DotGit>>},
     others |-> {}]

\* C22: discover_git_repos returns no repository root that is, or lies
\* beneath, a directory at or below the scan root whose name is in the
\* ignore set; for /r/a/.git, /r/b/.git, /r/b/v/a/.git and the ignore set
\* {v} it returns exactly /r/a and /r/b.
C22_NothingBeneathIgnored ==
    walk.pc = "done" =>
        /\ \A i \in 1..Len(walk.out) :
              \A q \in Above(walk.out[i]) : FileName(q) \notin walk.ignore_dir_names
        /\ (fs = ScenarioTree /\ walk.ignore_dir_names = {N_v} /\ walk.max_depth = None) =>
              Range(walk.out) = {<<N_r, N_a>>, <<N_r, N_b>>}

\* the scan of the scenario tree with the ignore set {v} has returned
C22_Witness ==
    /\ walk.pc = "done"
    /\ fs = ScenarioTree /\ walk.ignore_dir_names = {N_v} /\ walk.max_depth = None
    /\ Len(walk.out) = 2

\* C23: discover_git_repos returns only parents of directories named .git,
\* each at most once, in ascending path order, and a second scan of the
\* unchanged tree with the same arguments returns the same sequence.
C23_SortedOnceAndRepeatable ==
    walk.pc = "done" =>
        /\ \A i \in 1..Len(walk.out) : Append(walk.out[i], DotGit) \in fs.dirs
        /\ \A i, j \in 1..Len(walk.out) : i < j => PathLess(walk.out[i], walk.out[j])
        /\ walk.prev # None => walk.out = walk.prev[1]

\* a second scan has returned four repositories
C23_Witness ==
    /\ walk.pc = "done"
    /\ walk.prev # None
    /\ Len(walk.out) = 4

\* the nested pairs of the tree: D and E hold a directory .git, E lies
\* below D and no directory from the scan root down to E has an ignored name
NestedPairs ==
    {x \in fs.dirs \X fs.dirs :
        /\ IsPrefix(x[1], x[2]) /\ x[1] # x[2]
        /\ Append(x[1], DotGit) \in fs.dirs
        /\ Append(x[2], DotGit) \in fs.dirs
        /\ \A q \in Above(x[2]) : FileName(q) \notin walk.ignore_dir_names}

\* C24 as stated: both repositories of a nested pair are returned when E is
\* within the depth bound.
C24_NestedBothWhenReposWithinDepth ==
    walk.pc = "done" =>
        \A x \in NestedPairs :
            WithinDepth(x[2]) => (x[1] \in Range(walk.out) /\ x[2] \in Range(walk.out))

\* C24: both repositories of a nested pair are returned when E's .git
\* directory is within the depth bound; D's .git ends the descent into
\* that .git only.
C24_NestedBothWhenGitDirWithinDepth ==
    walk.pc = "done" =>
        \A x \in NestedPairs :
            WithinDepth(Append(x[2], DotGit)) =>
                (x[1] \in Range(walk.out) /\ x[2] \in Range(walk.out))

\* the root repository, /r/a and the repository /r/a/b nested in both were
\* returned by a scan bounded to the depth of /r/a/b/.git
C24_Witness ==
    /\ walk.pc = "done"
    /\ walk.max_depth = Some(3)
    /\ {ScanRoot, <<N_r, N_a>>, <<N_r, N_a, N_b>>} \subseteq Range(walk.out)

\* C34: with max_depth = d a directory that holds a directory .git and lies
\* k levels below the scan root is returned if and only if k + 1 <= d and
\* no directory from the scan root down to it has an ignored name; d = 0
\* returns nothing and d = 1 at most the scan root.
C34_DepthBoundCountsGitEntry ==
    (walk.pc = "done" /\ walk.max_depth # None) =>
        /\ \A p \in fs.dirs : Append(p, DotGit) \in fs.dirs =>
              (p \in Range(walk.out) <=>
                  /\ Depth(p) + 1 <= walk.max_depth[1]
                  /\ \A q \in Above(p) : FileName(q) \notin walk.ignore_dir_names)
        /\ walk.max_depth = Some(0) => walk.out = <<>>
        /\ walk.max_depth = Some(1) => Range(walk.out) \subseteq {ScanRoot}

\* a scan bounded to depth 1 returned the scan root alone from a tree with
\* a repository one level down
C34_Witness ==
    /\ walk.pc = "done" /\ walk.max_depth = Some(1)
    /\ walk.out = <<ScanRoot>>
    /\ <<N_r, N_b, DotGit>> \in fs.dirs

(***************************************************************************)
(* Properties of the metadata extractor                                    *)
(***************************************************************************)
MetaRead == walk.pc = "read"
UsedRoot == IF fs.canon = None THEN fs.root ELSE fs.canon[1]

\* C31: read_repo_metadata returns a record for every path: its path is the
\* text of the canonical path, or of the path given when canonicalize
\* fails, its name the last segment of that path or the whole text when the
\* path has none, last_scan_ts is the time of the call, and default_branch,
\* last_commit_ts and origin_url are absent when the repository cannot be
\* opened.
C31_MetadataAlwaysReturned ==
    MetaRead =>
        /\ walk.out.ok
        /\ walk.out.meta.path = to_string_lossy(UsedRoot)
        /\ (UsedRoot # <<>> /\ UsedRoot[Len(UsedRoot)] # DotDot)
               => walk.out.meta.name = UsedRoot[Len(UsedRoot)]
        /\ (UsedRoot = <<>> \/ UsedRoot[Len(UsedRoot)] = DotDot)
               => walk.out.meta.name = walk.out.meta.path
        /\ walk.out.meta.last_scan_ts = walk.now
        /\ git = None =>
              /\ walk.out.meta.default_branch = None
              /\ walk.out.meta.last_commit_ts = None
              /\ walk.out.meta.origin_url = None

\* a path that cannot be canonicalized, has no last segment and holds no
\* repository
C31_Witness ==
    /\ MetaRead
    /\ fs.canon = None /\ fs.root = <<N_r, DotDot>>
    /\ git = None
    /\ walk.out.meta.name = <<"/", "r", "/", ".", ".">>

\* the lines of a text that have a character other than white space,
\* counted without the code's own splitting: a line is a maximal run
\* without \n
LineStarts(s) == {i \in 1..Len(s) : i = 1 \/ s[i - 1] = "\n"}
LineEnd(s, i) ==
    LET stops == {j \in i..Len(s) : s[j] = "\n"}
    IN  IF stops = {} THEN Len(s) ELSE (CHOOSE j \in stops : \A k \in stops : j <= k) - 1
InkLines(s) ==
    {i \in LineStarts(s) : \E j \in i..LineEnd(s, i) : s[j] \notin WhiteSpace \cup {"\n"}}
\* the characters of the first n lines with ink, line ends left out
RECURSIVE InkOfFirst(_, _, _)
InkOfFirst(s, from, n) ==
    LET rest == {i \in InkLines(s) : i >= from}
    IN  IF n = 0 \/ rest = {} THEN 0
        ELSE LET i == CHOOSE x \in rest : \A y \in rest : x <= y
                 e == LineEnd(s, i)
                 w == IF e >= i /\ s[e] = "\r" THEN e - i ELSE e - i + 1
             IN  w + InkOfFirst(s, e + 1, n - 1)
Shown(s) ==
    LET n == IF Cardinality(InkLines(s)) < ExcerptLines THEN Cardinality(InkLines(s))
             ELSE ExcerptLines
    IN  InkOfFirst(s, 1, n) + (IF n = 0 THEN 0 ELSE n - 1)

\* C32: the excerpt is absent when no README candidate exists and when the
\* first that exists, in the order README.md, Readme.md, README.MD, README,
\* cannot be read as text, whatever the later candidates are; else it is
\* made of that candidate's first 10 non-blank lines with one space between
\* two of them, cut to 280 characters.
C32_ExcerptOfFirstExisting ==
    MetaRead =>
        LET there == {i \in 1..Len(candidates) : fs.readme[i] # Missing}
            first == CHOOSE i \in there : \A j \in there : i <= j
            got   == walk.out.meta.readme_excerpt
        IN  /\ there = {} => got = None
            /\ (there # {} /\ fs.readme[first] = Unreadable) => got = None
            /\ (there # {} /\ fs.readme[first] # Unreadable) =>
                  LET s == fs.readme[first].text
                  IN  /\ got # None
                      /\ Len(got[1]) <= ExcerptChars
                      /\ Len(got[1]) = (IF Shown(s) < ExcerptChars THEN Shown(s) ELSE ExcerptChars)
                      /\ \A i \in 1..Len(got[1]) : got[1][i] # "\n"
                      /\ got[1] = Take(JoinSpace(Take(NonBlank(lines(s)), ExcerptLines)),
                                       ExcerptChars)

\* README.md is missing, Readme.md cannot be read and README.MD is a text
C32_Witness ==
    /\ MetaRead
    /\ fs.readme[1] = Missing /\ fs.readme[2] = Unreadable /\ fs.readme[3] = Readme_a
    /\ walk.out.meta.readme_excerpt = None

(***************************************************************************)
(* Properties of a scan with prune                                         *)
(***************************************************************************)
ScanPruned == walk.pc = "upserted" /\ call.op = "prune_under_root"
RootText == to_string_lossy(walk.root)
FoundTexts == {to_string_lossy(walk.out[i]) : i \in 1..Len(walk.out)}
StrictlyUnder(root, path) ==
    Len(path) > Len(root) + 1 /\ SubSeq(path, 1, Len(root) + 1) = root \o MAIN_SEPARATOR

BuiltOk == built.pc = "returned" /\ built.result = "ok"
Opened == git[built.repo_path]
Discovered == Opened.locals \o Opened.remotes
HeadLike(name) == name = N_HEAD \/ EndsWith(name, SlashHEAD)
\* where the branch of this ref name was met by the two loops
DiscoveryPlace(refname) == CHOOSE k \in 1..Len(Discovered) : Discovered[k].refname = Some(refname)
Unresolvable(b) == b.target = None \/ b.target[1] \notin DOMAIN Opened.times
TipKey(b) == IF Unresolvable(b) THEN 0 ELSE Opened.times[b.target[1]]
ReturnedRefs == {built.branches[k].refname : k \in 1..Len(built.branches)}

\* main (tip time 2), dev (tip time 3) and old (tip time 1)
ThreeBranches ==
    [kind |-> "repo", locals |-> <<B_m, B_d, B_o>>, remotes |-> <<>>,
     times |-> [c1 |-> 1, c2 |-> 2, c3 |-> 3, c4 |-> 2]]

\* C25: build_commit_index_for_repo returns at most max(branches_limit, 1)
\* tips, by tip time descending with an unresolvable tip time ordered as 0
\* and returned as absent, tips of equal time in discovery order; the
\* branches left out are no later than the ones returned; main 2, dev 3,
\* old 1 with the limit 2 give dev, main.
C25_TipsLatestFirstWithinLimit ==
    BuiltOk =>
        /\ Len(built.branches) <= Max(built.branches_limit, 1)
        /\ \A i, j \in 1..Len(built.branches) : i < j =>
              /\ Coalesce(built.branches[i].tip_time, 0) >= Coalesce(built.branches[j].tip_time, 0)
              /\ Coalesce(built.branches[i].tip_time, 0) = Coalesce(built.branches[j].tip_time, 0) =>
                    DiscoveryPlace(built.branches[i].refname) < DiscoveryPlace(built.branches[j].refname)
        /\ \A i \in 1..Len(built.branches) :
              LET b == Discovered[DiscoveryPlace(built.branches[i].refname)]
              IN  built.branches[i].tip_time =
                      IF Unresolvable(b) THEN None ELSE Some(Opened.times[b.target[1]])
        /\ \A k \in 1..Len(Discovered) :
              LET b == Discovered[k]
              IN  (b.name # None /\ ~ HeadLike(b.name[1]) /\ b.refname[1] \notin ReturnedRefs) =>
                      /\ Len(built.branches) = Max(built.branches_limit, 1)
                      /\ \A i \in 1..Len(built.branches) :
                            TipKey(b) <= Coalesce(built.branches[i].tip_time, 0)
        /\ (Opened = ThreeBranches /\ built.branches_limit = 2) =>
              [k \in 1..Len(built.branches) |-> built.branches[k].name] = << <<"d">>, <<"m">> >>

\* the build of main, dev and old with the limit 2 has returned two tips
C25_Witness ==
    /\ BuiltOk
    /\ Opened = ThreeBranches /\ built.branches_limit = 2
    /\ Len(built.branches) = 2

\* C26: no tip returned by build_commit_index_for_repo has a short name
\* that is HEAD or ends with /HEAD, whether the branch is local or remote.
C26_NoHeadTips ==
    BuiltOk => \A k \in 1..Len(built.branches) : ~ HeadLike(built.branches[k].name)

\* the rows of built.commits that carry the ref name
RowsOfRef(refname) == {i \in 1..Len(built.commits) : built.commits[i].refname = refname}

\* C27: the tips returned are those selected from the branches and
\* branches_limit alone, whatever commits_per_branch is and whatever the
\* walks yield: a selected branch without a target, which contributes no
\* commit record, is among the tips returned.
C27_TipsIndependentOfWalks ==
    BuiltOk =>
        LET tips == SelectedTips(Opened, built.branches_limit)
        IN  /\ Len(built.branches) = Len(tips)
            /\ \A k \in 1..Len(tips) :
                  /\ built.branches[k] = BranchOfTip(tips[k])
                  /\ tips[k].tip_oid = None => RowsOfRef(tips[k].refname) = {}

\* a build capped at one commit per branch returned a tip without a target
\* next to a tip with a commit record
C27_Witness ==
    /\ BuiltOk
    /\ built.commits_per_branch <= 1
    /\ \E k \in 1..Len(built.branches) :
          /\ built.branches[k].tip_time = None
          /\ RowsOfRef(built.branches[k].refname) = {}
    /\ built.commits # <<>>

\* C28: per selected branch build_commit_index_for_repo emits at most
\* max(commits_per_branch, 1) records, the first of them the tip commit,
\* in non-increasing commit-time order, for every commit graph.
C28_WalkCappedAndTimeOrdered ==
    BuiltOk =>
        \A k \in 1..Len(built.tips) :
            LET rows == RowsOfRef(built.tips[k].refname)
            IN  /\ Cardinality(rows) <= Max(built.commits_per_branch, 1)
                /\ rows # {} =>
                      built.commits[CHOOSE i \in rows : \A j \in rows : i <= j].oid
                          = built.tips[k].tip_oid[1]
                /\ \A i, j \in rows : i < j =>
                      built.commits[i].time[1] >= built.commits[j].time[1]

\* C29: in the output of build_commit_index_for_repo the tips' ref names
\* are pairwise distinct, the pairs (ref name, commit id) are pairwise
\* distinct, a commit met by the walks of k selected branches appears k
\* times, once per ref name, and replace_commit_index_for_repo inserts the
\* output without a uniqueness violation.
C29_OutputKeysDistinct ==
    BuiltOk =>
        /\ \A i, j \in 1..Len(built.branches) :
              i # j => built.branches[i].refname # built.branches[j].refname
        /\ \A i, j \in 1..Len(built.commits) :
              i # j => <<built.commits[i].refname, built.commits[i].oid>>
                          # <<built.commits[j].refname, built.commits[j].oid>>
        /\ \A i \in 1..Len(built.commits) : built.commits[i].refname \in ReturnedRefs
        /\ \A oid \in DOMAIN Parents :
              Cardinality({i \in 1..Len(built.commits) : built.commits[i].oid = oid})
                  = Cardinality({r \in ReturnedRefs :
                        \E i \in RowsOfRef(r) : built.commits[i].oid = oid})
        /\ InsertBranches({}, {[id |-> 1]}, 1, built.branches).ok
        /\ InsertCommits({}, {[id |-> 1]}, 1, built.commits).ok

\* three tips were returned and the commit c2 is recorded under each
C29_Witness ==
    /\ BuiltOk
    /\ Len(built.branches) = 3
    /\ Cardinality({i \in 1..Len(built.commits) : built.commits[i].oid = "c2"}) = 3

(***************************************************************************)
(* Properties of the commit-index rebuild loop                             *)
(***************************************************************************)
\* the commit index stored for the repository at path p
StoredIndex(cb, cm, p) ==
    IF repo_id_by_path(repos, p) = None THEN NoIndex
    ELSE IndexOf(cb, cm, repo_id_by_path(repos, p)[1])

AtTarget == job.targets[job.k]

\* C30: a target whose path does not exist is passed over without a build,
\* without an error and with its stored index unchanged; a failed build
\* ends the rebuild with the error, the store unchanged, and no step of
\* the loop follows it.
C30_RebuildSkipsMissingAndPropagates ==
    [][/\ (job.pc = "loop" /\ job.k <= Len(job.targets) /\ git[AtTarget].kind = "absent") =>
              /\ job'.pc = "loop" /\ job'.k = job.k + 1
              /\ built' = built
              /\ UNCHANGED <<storeVars, ret, call>>
       /\ (job.pc = "build" /\ built.pc = "returned" /\ built.result = "err") =>
              /\ job'.pc = "failed"
              /\ StoredIndex(commit_branches', commits', AtTarget)
                    = StoredIndex(commit_branches, commits, AtTarget)
              /\ UNCHANGED storeVars
       /\ job.pc = "failed" => UNCHANGED vars
       /\ \A p \in RebuildPaths :
              (StoredIndex(commit_branches', commits', p) # StoredIndex(commit_branches, commits, p)) =>
                  (p = AtTarget /\ git[p].kind = "repo" /\ built.result = "ok")
      ]_vars

\* the first target was missing and passed over, the build of the second
\* failed and ended the rebuild; both stored indexes are the old ones
C30_Witness ==
    /\ job.pc = "failed" /\ job.k = 2
    /\ git[job.targets[1]].kind = "absent"
    /\ built.result = "err" /\ git[job.targets[2]] = RepoMissingTip
    /\ StoredIndex(commit_branches, commits, P_ax) = InputRows(1, IndexOld)
    /\ StoredIndex(commit_branches, commits, P_ay) = InputRows(2, IndexOld)

====
